---- MODULE Spec2Model ----
(***************************************************************************)
(* jiminy: declarative instruction definitions for pinocchio programs.     *)
(*                                                                         *)
(* The module models                                                       *)
(*   - the capability rules of validate_account! (src/src/jiminy.rs),      *)
(*   - the account binding and payload decoding that                       *)
(*     define_instruction_with_metadata! generates,                        *)
(*   - the build script's instruction parser (src/build.rs), working on    *)
(*     the characters of the source text,                                  *)
(*   - the build script's error-table parser, its state-record parser and  *)
(*     its code generator,                                                 *)
(*   - the dispatch routine generate_program_code emits,                   *)
(*   - the PDA assertions and the account lifecycle macros (load!,         *)
(*     load_mut!, with_state!, create_pda!, close_account!),               *)
(*   - the deadline of a vote in examples/vote.                            *)
(*                                                                         *)
(* The specifications share the variables:                                 *)
(*   SpecValidate   one slot rule applied to one account,                  *)
(*   SpecParse      a declaration rendered to text and parsed back,        *)
(*   SpecErrors     an error table rendered to text and parsed back,       *)
(*   SpecGenerate   descriptors turned into the generated source,          *)
(*   SpecPda        one batch of PDA assertions,                           *)
(*   SpecState      state records rendered to text and parsed back,        *)
(*   SpecBorrow     the views one handler takes on account storage,        *)
(*   SpecLifecycle  accounts created, validated, loaded, written, closed,  *)
(*   SpecDeadline   a vote's deadline stored and read back,                *)
(*   Spec           a built program dispatching incoming operations.       *)
(***************************************************************************)
EXTENDS Integers, Sequences, FiniteSets, TLC

VARIABLES
    v_rule,            \* SpecValidate: the slot's capability rule
    v_account,         \* SpecValidate: the account bound to the slot
    v_result,          \* SpecValidate: what validate_account! returned
    v_pc,              \* SpecValidate: "idle" | "ready" | "validated"
    p_decl,            \* SpecParse: the declaration the author wrote
    p_layout,          \* SpecParse: how the author laid the declaration out
    p_content,         \* SpecParse: the text of the source file
    p_meta,            \* SpecParse: what parse_instruction_file returned
    p_pc,              \* SpecParse: "idle" | "ready" | "parsed"
    e_decl,            \* SpecErrors: the error table the author wrote
    e_content,         \* SpecErrors: the text of src/error.rs
    e_meta,            \* SpecErrors: what extract_error_metadata returned
    e_pc,              \* SpecErrors: "idle" | "ready" | "parsed"
    g_instructions,    \* SpecGenerate: the instruction descriptors
    g_errors,          \* SpecGenerate: the error domains
    g_state_structs,   \* SpecGenerate: the state records
    g_code,            \* SpecGenerate: the items of the generated source
    g_pc,              \* SpecGenerate: "idle" | "ready" | "generated"
    program,           \* Spec: the built program (handlers, descriptors, error domains)
    program_id,        \* Spec: the identity the operation names
    accounts,          \* Spec: the operation's ordered account list
    instruction_data,  \* Spec: the operation's payload bytes
    outcome,           \* Spec: what process_instruction did and returned
    pc,                \* Spec: "idle" | "ready" | "done"
    a_batch,           \* SpecPda: the assertions of one validate_pdas! call
    a_result,          \* SpecPda: what the call returned and how far it got
    a_pc,               \* SpecPda: "idle" | "ready" | "checked"
    l_ledger,          \* SpecLifecycle: the accounts, by key
    l_overflow_checks, \* SpecLifecycle: whether the build checks arithmetic overflow
    l_last,            \* SpecLifecycle: the last operation and what it returned
    l_before,          \* SpecLifecycle: the accounts before the last operation
    l_closed,          \* SpecLifecycle: keys closed and not created since
    l_created,         \* SpecLifecycle: keys created and not closed since
    l_ever_closed,     \* SpecLifecycle: keys closed at some time
    l_steps,           \* SpecLifecycle: operations run so far
    l_pc,               \* SpecLifecycle: "idle" | "run"
    s_decl,            \* SpecState: the records the author declared
    s_layout,          \* SpecState: how the author laid the file out
    s_content,         \* SpecState: the text of src/state/mod.rs
    s_meta,            \* SpecState: what extract_state_metadata returned
    s_pc,               \* SpecState: "idle" | "ready" | "parsed"
    b_ledger,          \* SpecBorrow: the accounts of one operation, by key
    b_views,           \* SpecBorrow: the views the handler holds, oldest first
    b_last,            \* SpecBorrow: what the last load returned
    b_pc,               \* SpecBorrow: "idle" | "run"
    d_time_to_add,     \* SpecDeadline: InitializeVote's payload field, 8 bytes
    d_clock,           \* SpecDeadline: Clock.unix_timestamp when the vote is created
    d_overflow_checks, \* SpecDeadline: whether the build checks arithmetic overflow
    d_computed,        \* SpecDeadline: the deadline InitializeVote computed
    d_end_timestamp,   \* SpecDeadline: the vote record's end_timestamp field
    d_last,            \* SpecDeadline: what the last reader read and returned
    d_pc               \* SpecDeadline: "idle" | "ready" | "stored" | "panicked" | "read"

validateVars == <<v_rule, v_account, v_result, v_pc>>

parseVars == <<p_decl, p_layout, p_content, p_meta, p_pc>>

errorVars == <<e_decl, e_content, e_meta, e_pc>>

generateVars == <<g_instructions, g_errors, g_state_structs, g_code, g_pc>>

dispatchVars == <<program, program_id, accounts, instruction_data, outcome, pc>>

pdaVars == <<a_batch, a_result, a_pc>>

stateVars == <<s_decl, s_layout, s_content, s_meta, s_pc>>

borrowVars == <<b_ledger, b_views, b_last, b_pc>>

deadlineVars ==
    <<d_time_to_add, d_clock, d_overflow_checks, d_computed, d_end_timestamp, d_last, d_pc>>

lifecycleVars ==
    <<l_ledger, l_overflow_checks, l_last, l_before, l_closed, l_created, l_ever_closed,
      l_steps, l_pc>>

----------------------------------------------------------------------------
(* Results: ProgramResult / Result<_, ProgramError>.                       *)

Ok == [ok |-> TRUE, err |-> "Ok", code |-> 0]

Err(e) == [ok |-> FALSE, err |-> e, code |-> 0]

Custom(c) == [ok |-> FALSE, err |-> "Custom", code |-> c]

----------------------------------------------------------------------------
(* Text.  Source text is a sequence of characters (one-character strings); *)
(* the operators below are the str methods the build script calls.         *)

NL == "\n"

Whitespace == {" ", "\t", NL, "\r"}

starts_with(s, p) == Len(s) >= Len(p) /\ SubSeq(s, 1, Len(p)) = p

ends_with(s, p) == Len(s) >= Len(p) /\ SubSeq(s, Len(s) - Len(p) + 1, Len(s)) = p

\* str::contains: p occurs somewhere in s.
contains(s, p) == \E i \in 1..(Len(s) - Len(p) + 1) : SubSeq(s, i, i + Len(p) - 1) = p

\* str::find for one character: the first position of c in s, 0 for None.
find(s, c) ==
    LET hits == {i \in 1..Len(s) : s[i] = c} IN
    IF hits = {} THEN 0 ELSE CHOOSE i \in hits : \A k \in hits : i <= k

\* str::find for a pattern: the first position where p starts in s, 0 for None.
find_str(s, p) ==
    LET hits == {i \in 1..(Len(s) - Len(p) + 1) :
                    \A k \in 1..Len(p) : s[i + k - 1] = p[k]} IN
    IF hits = {} THEN 0 ELSE CHOOSE i \in hits : \A k \in hits : i <= k

\* str::trim_start / trim_end / trim.
RECURSIVE trim_start(_)
trim_start(s) ==
    IF s # <<>> /\ Head(s) \in Whitespace THEN trim_start(Tail(s)) ELSE s

RECURSIVE trim_end(_)
trim_end(s) ==
    IF s # <<>> /\ s[Len(s)] \in Whitespace THEN trim_end(SubSeq(s, 1, Len(s) - 1)) ELSE s

trim(s) == trim_end(trim_start(s))

\* str::trim_end_matches(c): every trailing c removed.
RECURSIVE trim_end_matches(_, _)
trim_end_matches(s, c) ==
    IF s # <<>> /\ s[Len(s)] = c THEN trim_end_matches(SubSeq(s, 1, Len(s) - 1), c) ELSE s

RECURSIVE trim_start_matches(_, _)
trim_start_matches(s, c) ==
    IF s # <<>> /\ Head(s) = c THEN trim_start_matches(Tail(s), c) ELSE s

\* str::trim_matches(c): every leading and trailing c removed.
trim_matches(s, c) == trim_end_matches(trim_start_matches(s, c), c)

\* str::split(c): the pieces between the occurrences of c, empty ones kept.
RECURSIVE split(_, _)
split(s, c) ==
    LET i == find(s, c) IN
    IF i = 0 THEN <<s>>
    ELSE <<SubSeq(s, 1, i - 1)>> \o split(SubSeq(s, i + 1, Len(s)), c)

\* str::lines: the pieces between line feeds; a final empty piece is no line.
lines(s) ==
    LET parts == split(s, NL) IN
    IF parts[Len(parts)] = <<>> THEN SubSeq(parts, 1, Len(parts) - 1) ELSE parts

Digits == <<"0", "1", "2", "3", "4", "5", "6", "7", "8", "9">>

IsDigit(c) == \E d \in 1..10 : Digits[d] = c

DigitValue(c) == (CHOOSE d \in 1..10 : Digits[d] = c) - 1

RECURSIVE DecimalValue(_)
DecimalValue(s) ==
    IF s = <<>> THEN 0
    ELSE 10 * DecimalValue(SubSeq(s, 1, Len(s) - 1)) + DigitValue(s[Len(s)])

\* Largest value of a u8.
U8Max == 255

\* str::parse::<u8>: an optional "+", then one or more decimal digits whose
\* value fits a u8; anything else is an error.
parse_u8(s) ==
    LET digits == IF s # <<>> /\ Head(s) = "+" THEN Tail(s) ELSE s IN
    IF digits # <<>> /\ (\A i \in 1..Len(digits) : IsDigit(digits[i]))
          /\ DecimalValue(digits) <= U8Max
    THEN [ok |-> TRUE, value |-> DecimalValue(digits)]
    ELSE [ok |-> FALSE, value |-> 0]

\* u8's Display: the decimal digits of n.
RECURSIVE to_string(_)
to_string(n) ==
    IF n < 10 THEN <<Digits[n + 1]>> ELSE to_string(n \div 10) \o <<Digits[(n % 10) + 1]>>

----------------------------------------------------------------------------
(* String literals as text: Chars("desc:") is the text d,e,s,c,:.  The     *)
(* table holds the literals of the build script and the names, capability  *)
(* words, descriptions and type tokens of the declarations the model uses. *)
Chars(s) ==
    CASE s = "define_instruction_with_metadata!(" ->
            <<"d", "e", "f", "i", "n", "e", "_", "i", "n", "s", "t", "r", "u", "c", "t", "i", "o", "n", "_", "w", "i", "t", "h", "_", "m", "e", "t", "a", "d", "a", "t", "a", "!", "(">>
      [] s = "define_instruction!(" ->
            <<"d", "e", "f", "i", "n", "e", "_", "i", "n", "s", "t", "r", "u", "c", "t", "i", "o", "n", "!", "(">>
      [] s = "define_instruction" ->
            <<"d", "e", "f", "i", "n", "e", "_", "i", "n", "s", "t", "r", "u", "c", "t", "i", "o", "n">>
      [] s = "discriminant:" ->
            <<"d", "i", "s", "c", "r", "i", "m", "i", "n", "a", "n", "t", ":">>
      [] s = "accounts:" ->
            <<"a", "c", "c", "o", "u", "n", "t", "s", ":">>
      [] s = "data:" ->
            <<"d", "a", "t", "a", ":">>
      [] s = "process:" ->
            <<"p", "r", "o", "c", "e", "s", "s", ":">>
      [] s = "desc:" ->
            <<"d", "e", "s", "c", ":">>
      [] s = "=> writable" ->
            <<"=", ">", " ", "w", "r", "i", "t", "a", "b", "l", "e">>
      [] s = "writable" ->
            <<"w", "r", "i", "t", "a", "b", "l", "e">>
      [] s = "signer" ->
            <<"s", "i", "g", "n", "e", "r">>
      [] s = "uninitialized" ->
            <<"u", "n", "i", "n", "i", "t", "i", "a", "l", "i", "z", "e", "d">>
      [] s = "program" ->
            <<"p", "r", "o", "g", "r", "a", "m">>
      [] s = "token" ->
            <<"t", "o", "k", "e", "n">>
      [] s = "not_token" ->
            <<"n", "o", "t", "_", "t", "o", "k", "e", "n">>
      [] s = "any" ->
            <<"a", "n", "y">>
      [] s = "Create" ->
            <<"C", "r", "e", "a", "t", "e">>
      [] s = "InitializeCounter" ->
            <<"I", "n", "i", "t", "i", "a", "l", "i", "z", "e", "C", "o", "u", "n", "t", "e", "r">>
      [] s = "Increment" ->
            <<"I", "n", "c", "r", "e", "m", "e", "n", "t">>
      [] s = "Decrement" ->
            <<"D", "e", "c", "r", "e", "m", "e", "n", "t">>
      [] s = "owner" ->
            <<"o", "w", "n", "e", "r">>
      [] s = "counter" ->
            <<"c", "o", "u", "n", "t", "e", "r">>
      [] s = "target" ->
            <<"t", "a", "r", "g", "e", "t">>
      [] s = "system_program" ->
            <<"s", "y", "s", "t", "e", "m", "_", "p", "r", "o", "g", "r", "a", "m">>
      [] s = "Owner of the counter" ->
            <<"O", "w", "n", "e", "r", " ", "o", "f", " ", "t", "h", "e", " ", "c", "o", "u", "n", "t", "e", "r">>
      [] s = "Counter PDA: the state" ->
            <<"C", "o", "u", "n", "t", "e", "r", " ", "P", "D", "A", ":", " ", "t", "h", "e", " ", "s", "t", "a", "t", "e">>
      [] s = "Account to create" ->
            <<"A", "c", "c", "o", "u", "n", "t", " ", "t", "o", " ", "c", "r", "e", "a", "t", "e">>
      [] s = "System program" ->
            <<"S", "y", "s", "t", "e", "m", " ", "p", "r", "o", "g", "r", "a", "m">>
      [] s = "data" ->
            <<"d", "a", "t", "a">>
      [] s = "Data account" ->
            <<"D", "a", "t", "a", " ", "a", "c", "c", "o", "u", "n", "t">>
      [] s = "amount" ->
            <<"a", "m", "o", "u", "n", "t">>
      [] s = "side" ->
            <<"s", "i", "d", "e">>
      [] s = "[u8; 8]" ->
            <<"[", "u", "8", ";", " ", "8", "]">>
      [] s = "u8" ->
            <<"u", "8">>
      [] s = "u64" ->
            <<"u", "6", "4">>
      [] s = "use crate::define_instruction_with_metadata;" ->
            <<"u", "s", "e", " ", "c", "r", "a", "t", "e", ":", ":", "d", "e", "f", "i", "n", "e", "_", "i", "n", "s", "t", "r", "u", "c", "t", "i", "o", "n", "_", "w", "i", "t", "h", "_", "m", "e", "t", "a", "d", "a", "t", "a", ";">>
      [] s = "define_errors!" ->
            <<"d", "e", "f", "i", "n", "e", "_", "e", "r", "r", "o", "r", "s", "!">>
      [] s = "// Define errors using the define_errors! macro" ->
            <<"/", "/", " ", "D", "e", "f", "i", "n", "e", " ", "e", "r", "r", "o", "r", "s", " ", "u", "s", "i", "n", "g", " ", "t", "h", "e", " ", "d", "e", "f", "i", "n", "e", "_", "e", "r", "r", "o", "r", "s", "!", " ", "m", "a", "c", "r", "o">>
      [] s = "CounterProgramError" ->
            <<"C", "o", "u", "n", "t", "e", "r", "P", "r", "o", "g", "r", "a", "m", "E", "r", "r", "o", "r">>
      [] s = "InvalidDiscriminator" ->
            <<"I", "n", "v", "a", "l", "i", "d", "D", "i", "s", "c", "r", "i", "m", "i", "n", "a", "t", "o", "r">>
      [] s = "Unauthorized" ->
            <<"U", "n", "a", "u", "t", "h", "o", "r", "i", "z", "e", "d">>
      [] s = "CounterKeyIncorrect" ->
            <<"C", "o", "u", "n", "t", "e", "r", "K", "e", "y", "I", "n", "c", "o", "r", "r", "e", "c", "t">>
      [] s = "Counter" ->
            <<"C", "o", "u", "n", "t", "e", "r">>
      [] s = "Config" ->
            <<"C", "o", "n", "f", "i", "g">>
      [] s = "count" ->
            <<"c", "o", "u", "n", "t">>
      [] s = "bump" ->
            <<"b", "u", "m", "p">>
      [] s = "admin" ->
            <<"a", "d", "m", "i", "n">>
      [] s = "[u8; 32]" ->
            <<"[", "u", "8", ";", " ", "3", "2", "]">>
      [] s = "authority" ->
            <<"a", "u", "t", "h", "o", "r", "i", "t", "y">>
      [] s = "pinocchio::pubkey::Pubkey" ->
            <<"p", "i", "n", "o", "c", "c", "h", "i", "o", ":", ":", "p", "u", "b", "k", "e", "y", ":", ":", "P", "u", "b", "k", "e", "y">>
      [] s = "Position" ->
            <<"P", "o", "s", "i", "t", "i", "o", "n">>
      [] s = "Platform" ->
            <<"P", "l", "a", "t", "f", "o", "r", "m">>
      [] s = "fee" ->
            <<"f", "e", "e">>
      [] s = "[u8; 2]" ->
            <<"[", "u", "8", ";", " ", "2", "]">>
      [] s = "platform_bump" ->
            <<"p", "l", "a", "t", "f", "o", "r", "m", "_", "b", "u", "m", "p">>
      [] s = "vault_bump" ->
            <<"v", "a", "u", "l", "t", "_", "b", "u", "m", "p">>
      [] s = "pub struct" ->
            <<"p", "u", "b", " ", "s", "t", "r", "u", "c", "t">>
      [] s = "pub " ->
            <<"p", "u", "b", " ">>
      [] s = "pub" ->
            <<"p", "u", "b">>
      [] s = "struct" ->
            <<"s", "t", "r", "u", "c", "t">>
      [] s = "define_state!" ->
            <<"d", "e", "f", "i", "n", "e", "_", "s", "t", "a", "t", "e", "!">>
      [] s = "use crate::define_state;" ->
            <<"u", "s", "e", " ", "c", "r", "a", "t", "e", ":", ":", "d", "e", "f", "i", "n", "e", "_", "s", "t", "a", "t", "e", ";">>
      [] s = "// Records declared with define_state!" ->
            <<"/", "/", " ", "R", "e", "c", "o", "r", "d", "s", " ", "d", "e", "c", "l", "a", "r", "e", "d", " ", "w", "i", "t", "h", " ", "d", "e", "f", "i", "n", "e", "_", "s", "t", "a", "t", "e", "!">>

--------------------------------------------------------
(* Accounts as the rules see them: AccountInfo::is_signer, is_writable,    *)
(* is_owned_by and lamports.                                               *)

\* Largest balance the model gives an account.
MaxLamports == 2

\* crate::ID, pinocchio_system::ID, pinocchio_token::ID and any other owner.
Owners == {"Program", "System", "Token", "Other"}

AccountInfo ==
    [is_signer : BOOLEAN, is_writable : BOOLEAN, owner : Owners,
     lamports : 0..MaxLamports]

\* The account types the macro's rules name, and the optional "=> writable".
AccountTypes == {"signer", "program", "uninitialized", "token", "not_token", "any"}

Rules == [type : AccountTypes, writable : BOOLEAN]

Rule(t, w) == [type |-> t, writable |-> w]

----------------------------------------------------------------------------
(* validate_account!                                                       *)

validate_signer(account) ==
    IF ~account.is_signer THEN Err("MissingRequiredSignature") ELSE Ok

validate_program(account) ==
    IF account.owner # "Program" THEN Err("InvalidAccountOwner")
    ELSE IF account.lamports = 0 THEN Err("UninitializedAccount")
    ELSE Ok

\* validate_uninitialized with its two tests in the other order.
validate_uninitialized_balance_first(account) ==
    IF account.lamports # 0 THEN Err("AccountAlreadyInitialized")
    ELSE IF account.owner # "System" THEN Err("InvalidAccountOwner")
    ELSE Ok

validate_uninitialized(account) ==
    IF account.owner # "System" THEN Err("InvalidAccountOwner")
    ELSE IF account.lamports # 0 THEN Err("AccountAlreadyInitialized")
    ELSE Ok

\* validate_token without its balance test.
validate_token_owner_only(account) ==
    IF account.owner # "Token" THEN Err("InvalidAccountOwner") ELSE Ok

validate_token(account) ==
    IF account.owner # "Token" THEN Err("InvalidAccountOwner")
    ELSE IF account.lamports = 0 THEN Err("UninitializedAccount")
    ELSE Ok

\* validate_not_token returning the token arm's second error.
validate_not_token_wrong_error(account) ==
    IF account.owner = "Token" THEN Err("UninitializedAccount") ELSE Ok

validate_not_token(account) ==
    IF account.owner = "Token" THEN Err("InvalidAccountOwner") ELSE Ok

validate_any(account) == Ok

\* The trailing is_writable test of every "=> writable" arm.
validate_writable(account) ==
    IF ~account.is_writable THEN Err("InvalidAccountData") ELSE Ok

\* The arm for the account type alone.
validate_type(account, type) ==
    CASE type = "signer" -> validate_signer(account)
      [] type = "program" -> validate_program(account)
      [] type = "uninitialized" -> validate_uninitialized(account)
      [] type = "token" -> validate_token(account)
      [] type = "not_token" -> validate_not_token(account)
      [] type = "any" -> validate_any(account)

\* The arm the macro selects for `type` or `type => writable`: the
\* "=> writable" arms run the plain arm first and test is_writable last.
validate_account(account, rule) ==
    LET r == validate_type(account, rule.type) IN
    IF ~r.ok THEN r
    ELSE IF rule.writable THEN validate_writable(account)
    ELSE Ok

----------------------------------------------------------------------------
(* define_instruction_with_metadata!(@shank_attrs ...): the attributes the *)
(* macro's metadata gives a slot.                                          *)

shank_attrs(rule) ==
    CASE rule.type = "signer" /\ rule.writable -> <<"signer", "writable">>
      [] rule.type = "signer" /\ ~rule.writable -> <<"signer">>
      [] rule.type = "uninitialized" -> <<"writable">>
      [] rule.type \notin {"signer", "uninitialized"} /\ rule.writable -> <<"writable">>
      [] OTHER -> <<>>

----------------------------------------------------------------------------
(* Instruction declarations: what an author passes to                      *)
(* define_instruction_with_metadata!, and the text it is written as (one   *)
(* account and one field per line, as in examples/*/instructions/*.rs).    *)

\* `type` or `type => writable`.
RuleText(rule) ==
    IF rule.writable
    THEN Chars(rule.type) \o <<" ">> \o Chars("=> writable")
    ELSE Chars(rule.type)

Indent(n) == [i \in 1..n |-> " "]

AccountLine(a) ==
    Indent(8) \o Chars(a.name) \o <<":", " ">> \o RuleText(a.rule) \o <<",", " ">>
        \o Chars("desc:") \o <<" ", "\"">> \o Chars(a.desc) \o <<"\"", ",", NL>>

FieldLine(f) ==
    Indent(8) \o Chars(f.name) \o <<":", " ">> \o Chars(f.type) \o <<",", NL>>

RECURSIVE Concat(_)
Concat(ss) == IF ss = <<>> THEN <<>> ELSE Head(ss) \o Concat(Tail(ss))

\* How a declaration is laid out in its file.  The macro matches tokens, so
\* it takes any of the first three alike:
\*   lines         one account per line, as in the examples,
\*   one_line      the accounts of the section on one line,
\*   open_comment  one account per line, and a comment in the process body
\*                 that holds an opening parenthesis,
\*   head_one_line the discriminant and the name on one line,
\*   hex_tag       the discriminant written as a hexadecimal literal
\*                 ($disc:literal takes any literal),
\*   no_macro      a file of src/instructions that invokes no macro.
Layouts == {"lines", "one_line", "open_comment", "head_one_line", "hex_tag", "no_macro"}

\* `name: type, desc: "..."`, one entry of the accounts section.
AccountEntry(a) ==
    Chars(a.name) \o <<":", " ">> \o RuleText(a.rule) \o <<",", " ">>
        \o Chars("desc:") \o <<" ", "\"">> \o Chars(a.desc) \o <<"\"">>

RECURSIVE JoinEntries(_)
JoinEntries(as) ==
    IF as = <<>> THEN <<>>
    ELSE IF Len(as) = 1 THEN AccountEntry(as[1])
    ELSE AccountEntry(as[1]) \o <<",", " ">> \o JoinEntries(Tail(as))

\* The lines between `accounts: {` and its closing brace.
AccountsBlock(decl, layout) ==
    IF layout = "one_line"
    THEN IF decl.accounts = <<>> THEN <<>>
         ELSE Indent(8) \o JoinEntries(decl.accounts) \o <<",", NL>>
    ELSE Concat([i \in 1..Len(decl.accounts) |-> AccountLine(decl.accounts[i])])

\* The lines of the process body.
ProcessBlock(layout) ==
    (IF layout = "open_comment" THEN Indent(8) \o <<"/", "/", " ", "(", NL>> ELSE <<>>)
    \o Indent(8) \o <<"O", "k", "(", "(", ")", ")", NL>>

\* The macro's argument, from its opening to its closing parenthesis.
MacroContentIn(decl, layout) ==
    <<"(", NL>>
    \o Indent(4) \o Chars("discriminant:") \o <<" ">>
    \o (IF layout = "hex_tag" THEN <<"0", "x">> ELSE <<>>) \o to_string(decl.discriminant)
    \o (IF layout = "head_one_line" THEN <<",", " ">> ELSE <<",", NL>> \o Indent(4))
    \o Chars(decl.name) \o <<",", NL>>
    \o Indent(4) \o Chars("accounts:") \o <<" ", "{", NL>>
    \o AccountsBlock(decl, layout)
    \o Indent(4) \o <<"}", ",", NL>>
    \o (IF decl.fields = <<>>
        THEN Indent(4) \o Chars("data:") \o <<" ", "{", "}", ",", NL>>
        ELSE Indent(4) \o Chars("data:") \o <<" ", "{", NL>>
             \o Concat([i \in 1..Len(decl.fields) |-> FieldLine(decl.fields[i])])
             \o Indent(4) \o <<"}", ",", NL>>)
    \o Indent(4) \o Chars("process:") \o <<" ", "{", NL>>
    \o ProcessBlock(layout)
    \o Indent(4) \o <<"}", NL>>
    \o <<")">>

MacroContent(decl) == MacroContentIn(decl, "lines")

\* A source file of src/instructions: the macro invocation after the file's
\* imports, or imports alone.
InstructionFileIn(decl, layout) ==
    Chars("use crate::define_instruction_with_metadata;") \o <<NL, NL>>
    \o (IF layout = "no_macro" THEN <<>>
        ELSE Chars("define_instruction_with_metadata!(")
                \o Tail(MacroContentIn(decl, layout)) \o <<";", NL>>)

InstructionFile(decl) == InstructionFileIn(decl, "lines")

----------------------------------------------------------------------------
(* The build script's instruction parser.                                  *)

\* parse_new_account_line: None is <<>>, Some(meta) is <<meta>>.
parse_new_account_line(line, index) ==
    LET parts == split(line, ":") IN
    IF Len(parts) < 3 THEN <<>>
    ELSE LET name == trim(parts[1])
             account_def == trim(parts[2])
             desc_part == trim_matches(trim_end_matches(trim(parts[3]), ","), "\"")
             signer == IF contains(account_def, Chars("signer")) THEN <<"signer">> ELSE <<>>
             writable ==
                 IF contains(account_def, Chars("writable"))
                        \/ contains(account_def, Chars("=> writable"))
                 THEN <<"writable">> ELSE <<>>
             uninitialized ==
                 IF contains(account_def, Chars("uninitialized")) THEN <<"writable">> ELSE <<>>
         IN <<[name |-> name, index |-> index, desc |-> desc_part,
               attrs |-> signer \o writable \o uninitialized]>>

\* parse_field_line.
parse_field_line(line) ==
    LET parts == split(line, ":") IN
    IF Len(parts) < 2 THEN <<>>
    ELSE <<[name |-> trim(parts[1]),
            field_type |-> trim_end_matches(trim(parts[2]), ",")]>>

\* The locals of parse_macro_content before its loop.
ParserStart ==
    [name |-> <<>>, discriminator |-> 0, accounts |-> <<>>, fields |-> <<>>,
     in_accounts |-> FALSE, in_data |-> FALSE, account_index |-> 0, done |-> FALSE]

\* One pass of parse_macro_content's loop body over a line.
ParserStep(st, raw) ==
    LET line == trim(raw) IN
    IF st.done THEN st
    ELSE IF starts_with(line, Chars("discriminant:")) THEN
        LET num == parse_u8(trim_end_matches(trim(split(line, ":")[2]), ",")) IN
        [st EXCEPT !.discriminator = IF num.ok THEN num.value ELSE 0]
    ELSE IF /\ st.name = <<>>
            /\ line # <<>>
            /\ ~starts_with(line, Chars("define_instruction"))
            /\ ~starts_with(line, Chars("discriminant:"))
            /\ ends_with(line, <<",">>) THEN
        [st EXCEPT !.name = trim_end_matches(line, ",")]
    ELSE IF starts_with(line, Chars("accounts:")) THEN
        [st EXCEPT !.in_accounts = TRUE, !.in_data = FALSE]
    ELSE IF starts_with(line, Chars("data:")) THEN
        [st EXCEPT !.in_accounts = FALSE, !.in_data = TRUE]
    ELSE IF starts_with(line, Chars("process:")) THEN
        [st EXCEPT !.done = TRUE]
    ELSE
        LET account ==
                IF st.in_accounts /\ contains(line, Chars("desc:"))
                THEN parse_new_account_line(line, st.account_index) ELSE <<>>
            field ==
                IF /\ st.in_data
                   /\ contains(line, <<":">>)
                   /\ ~starts_with(line, Chars("data:"))
                   /\ ~starts_with(line, <<"}">>)
                THEN parse_field_line(line) ELSE <<>>
        IN [st EXCEPT !.accounts = @ \o account,
                      !.account_index = @ + Len(account),
                      !.fields = @ \o field]

RECURSIVE ParserLoop(_, _)
ParserLoop(st, ls) ==
    IF ls = <<>> THEN st ELSE ParserLoop(ParserStep(st, Head(ls)), Tail(ls))

\* parse_macro_content: None is <<>>, Some(meta) is <<meta>>.
parse_macro_content(content) ==
    LET st == ParserLoop(ParserStart, lines(content)) IN
    IF st.name # <<>>
    THEN <<[name |-> st.name, discriminator |-> st.discriminator,
            accounts |-> st.accounts, fields |-> st.fields]>>
    ELSE <<>>

\* paren_count after the scan of parse_instruction_file, begun at `start`,
\* has read the character at position i.
ParenCount(content, start, i) ==
    Cardinality({j \in start..i : content[j] = "("})
        - Cardinality({j \in start..i : content[j] = ")"})

\* The scan of parse_instruction_file from `start`: characters are kept from
\* the first "(" on, and the scan stops at the first character that leaves
\* paren_count at zero with in_macro set, or at the end of input.
ExtractLoop(content, start) ==
    LET opens == {i \in start..Len(content) : content[i] = "("}
        closes == {i \in start..Len(content) : content[i] = ")"}
    IN
    IF opens = {} THEN <<>>
    ELSE LET first == CHOOSE i \in opens : \A k \in opens : i <= k
             \* paren_count changes at parentheses only
             stops == {i \in opens \cup closes :
                          i >= first /\ ParenCount(content, start, i) = 0}
             last == IF stops = {} THEN Len(content)
                     ELSE CHOOSE i \in stops : \A k \in stops : i <= k
         IN SubSeq(content, first, last)

\* parse_instruction_file, given the file's content.
parse_instruction_file(content) ==
    LET with_metadata == find_str(content, Chars("define_instruction_with_metadata!("))
        start == IF with_metadata # 0 THEN with_metadata
                 ELSE find_str(content, Chars("define_instruction!("))
    IN IF start = 0 THEN <<>>
       ELSE parse_macro_content(ExtractLoop(content, start))

\* Vec::sort_by_key(|i| i.discriminator): a stable sort.
RECURSIVE sort_by_discriminator(_)
sort_by_discriminator(v) ==
    IF v = <<>> THEN <<>>
    ELSE LET rest == sort_by_discriminator(SubSeq(v, 1, Len(v) - 1))
             x == v[Len(v)]
             before == SelectSeq(rest, LAMBDA y : y.discriminator <= x.discriminator)
             after == SelectSeq(rest, LAMBDA y : y.discriminator > x.discriminator)
         IN before \o <<x>> \o after

\* extract_instruction_metadata over the files of src/instructions, in the
\* order read_dir lists them.
extract_instruction_metadata(files) ==
    sort_by_discriminator(Concat([i \in 1..Len(files) |-> parse_instruction_file(files[i])]))

----------------------------------------------------------------------------
(* The build script's error-table parser.                                  *)

\* str::split_once(c): the text before and after the first c; None is <<>>.
split_once(s, c) ==
    LET i == find(s, c) IN
    IF i = 0 THEN <<>> ELSE <<SubSeq(s, 1, i - 1), SubSeq(s, i + 1, Len(s))>>

\* The decimal digits of u32::MAX.
U32MaxDigits == <<"4", "2", "9", "4", "9", "6", "7", "2", "9", "5">>

\* Digit strings of equal length, compared as numbers.
RECURSIVE DigitsLeq(_, _)
DigitsLeq(a, b) ==
    IF a = <<>> THEN TRUE
    ELSE IF DigitValue(Head(a)) # DigitValue(Head(b)) THEN DigitValue(Head(a)) < DigitValue(Head(b))
    ELSE DigitsLeq(Tail(a), Tail(b))

\* str::parse::<u32>: an optional "+", then one or more decimal digits whose
\* value fits a u32.  A value of ten significant digits is kept as its digits.
parse_u32(s) ==
    LET digits == IF s # <<>> /\ Head(s) = "+" THEN Tail(s) ELSE s
        significant == trim_start_matches(digits, "0")
    IN IF digits = <<>> \/ (\E i \in 1..Len(digits) : ~IsDigit(digits[i]))
       THEN [ok |-> FALSE, value |-> 0]
       ELSE IF Len(significant) < Len(U32MaxDigits)
       THEN [ok |-> TRUE, value |-> DecimalValue(significant)]
       ELSE IF Len(significant) = Len(U32MaxDigits) /\ DigitsLeq(significant, U32MaxDigits)
       THEN [ok |-> TRUE, value |-> significant]
       ELSE [ok |-> FALSE, value |-> 0]

\* brace_count after the scan of parse_error_macro, begun at `start`, has
\* read the character at position i.
BraceCount(content, start, i) ==
    Cardinality({j \in start..i : content[j] = "{"})
        - Cardinality({j \in start..i : content[j] = "}"})

\* The scan of parse_error_macro from the first "{": characters are kept up
\* to the first one that leaves brace_count at zero, or to the end of input.
ExtractBraces(content, start) ==
    LET \* brace_count changes at braces only
        stops == {i \in start..Len(content) :
                     content[i] \in {"{", "}"} /\ BraceCount(content, start, i) = 0}
        last == IF stops = {} THEN Len(content)
                ELSE CHOOSE i \in stops : \A k \in stops : i <= k
    IN SubSeq(content, start, last)

ErrorParserStart == [error_name |-> <<>>, variants |-> <<>>]

\* One pass of parse_error_macro's loop body over a line.
ErrorParserStep(st, raw) ==
    LET line == trim(raw) IN
    IF st.error_name = <<>> /\ line # <<>> /\ ~starts_with(line, <<"{">>)
    THEN [st EXCEPT !.error_name = trim_end_matches(line, ",")]
    ELSE IF contains(line, <<"=">>) /\ ~starts_with(line, <<"{">>) /\ ~starts_with(line, <<"}">>)
    THEN LET pair == split_once(line, "=")
             code == parse_u32(trim_end_matches(trim(pair[2]), ","))
         IN IF code.ok
            THEN [st EXCEPT !.variants = @ \o <<[name |-> trim(pair[1]), code |-> code.value]>>]
            ELSE st
    ELSE st

RECURSIVE ErrorParserLoop(_, _)
ErrorParserLoop(st, ls) ==
    IF ls = <<>> THEN st ELSE ErrorParserLoop(ErrorParserStep(st, Head(ls)), Tail(ls))

\* parse_error_macro: None is <<>>, Some(meta) is <<meta>>.
parse_error_macro(content) ==
    LET start == find(content, "{") IN
    IF start = 0 THEN <<>>
    ELSE LET st == ErrorParserLoop(ErrorParserStart, lines(ExtractBraces(content, start))) IN
         IF st.error_name # <<>> /\ st.variants # <<>>
         THEN <<[name |-> st.error_name, variants |-> st.variants]>>
         ELSE <<>>

\* extract_error_metadata, given the content of src/error.rs: the domains found.
extract_error_metadata(content) ==
    LET start == find_str(content, Chars("define_errors!")) IN
    IF start = 0 THEN <<>>
    ELSE parse_error_macro(SubSeq(content, start, Len(content)))

\* u32's Display, for the codes the model writes.
RECURSIVE u32_to_string(_)
u32_to_string(n) ==
    IF n < 10 THEN <<Digits[n + 1]>> ELSE u32_to_string(n \div 10) \o <<Digits[(n % 10) + 1]>>

\* `Variant = code,`, one line of an error table.
VariantLine(v) ==
    Indent(4) \o Chars(v.name) \o <<" ", "=", " ">> \o u32_to_string(v.code) \o <<",", NL>>

\* src/error.rs: the heading comment, then the error table.
ErrorFile(table) ==
    Chars("// Define errors using the define_errors! macro") \o <<NL>>
    \o Chars("define_errors!") \o <<" ", "{", NL>>
    \o Indent(4) \o Chars(table.name) \o <<",", NL>>
    \o Concat([i \in 1..Len(table.variants) |-> VariantLine(table.variants[i])])
    \o <<"}", NL>>

----------------------------------------------------------------------------
(* What define_instruction_with_metadata! generates for a declaration:     *)
(* account binding, payload decoding and the process body.                 *)

\* size_of and align_of of the field types the model uses.
SizeOf(type) ==
    CASE type = "u8" -> 1
      [] type = "[u8; 8]" -> 8
      [] type = "u64" -> 8
      [] type = "[u8; 32]" -> 32

AlignOf(type) ==
    CASE type = "u8" -> 1
      [] type = "[u8; 8]" -> 1
      [] type = "u64" -> 8
      [] type = "[u8; 32]" -> 1

RECURSIVE Sum(_)
Sum(ns) == IF ns = <<>> THEN 0 ELSE Head(ns) + Sum(Tail(ns))

\* [<$name Data>]::LEN: a Pod struct has no padding, so its size is the sum
\* of its fields' sizes.
DataLEN(fields) == Sum([i \in 1..Len(fields) |-> SizeOf(fields[i].type)])

DataAlign(fields) ==
    IF \E i \in 1..Len(fields) : AlignOf(fields[i].type) = 8 THEN 8 ELSE 1

\* One step of the work an operation causes.
Event(op, slot) == [op |-> op, slot |-> slot]

\* The validate_account! calls of try_from, from slot i on, in declared order;
\* a failing call returns from try_from.
RECURSIVE ValidateFrom(_, _, _)
ValidateFrom(slots, accts, i) ==
    IF i > Len(slots) THEN [result |-> Ok, trace |-> <<>>]
    ELSE LET r == validate_account(accts[i], slots[i].rule) IN
         IF ~r.ok THEN [result |-> r, trace |-> <<Event("validate", i - 1)>>]
         ELSE LET rest == ValidateFrom(slots, accts, i + 1) IN
              [result |-> rest.result,
               trace |-> <<Event("validate", i - 1)>> \o rest.trace]

\* try_from taking a list of exactly the declared length.
AccountsTryFrom_exact_length(decl, accts) ==
    IF Len(accts) # Len(decl.accounts)
    THEN [result |-> Err("NotEnoughAccountKeys"), trace |-> <<Event("bind", 0)>>]
    ELSE LET v == ValidateFrom(decl.accounts, accts, 1) IN
         [result |-> v.result, trace |-> <<Event("bind", 0)>> \o v.trace]

\* impl TryFrom<&[AccountInfo]> for $name.
AccountsTryFrom(decl, accts) ==
    IF Len(accts) < Len(decl.accounts)
    THEN [result |-> Err("NotEnoughAccountKeys"), trace |-> <<Event("bind", 0)>>]
    ELSE LET v == ValidateFrom(decl.accounts, accts, 1) IN
         [result |-> v.result, trace |-> <<Event("bind", 0)>> \o v.trace]

\* try_from_bytes taking a slice that is long enough.
try_from_bytes_prefix(fields, data, aligned) ==
    IF Len(data) < DataLEN(fields) THEN Err("InvalidInstructionData")
    ELSE IF DataAlign(fields) > 1 /\ ~aligned THEN Err("InvalidInstructionData")
    ELSE Ok

\* bytemuck::try_from_bytes::<[<$name Data>]>(data): the slice must have the
\* struct's size and its address the struct's alignment.
try_from_bytes(fields, data, aligned) ==
    IF Len(data) # DataLEN(fields) THEN Err("InvalidInstructionData")
    ELSE IF DataAlign(fields) > 1 /\ ~aligned THEN Err("InvalidInstructionData")
    ELSE Ok

\* The fields of the decoded struct: consecutive bytes, in declared order.
RECURSIVE DecodeFields(_, _)
DecodeFields(fields, data) ==
    IF fields = <<>> THEN <<>>
    ELSE LET n == SizeOf(Head(fields).type) IN
         <<[name |-> Head(fields).name, bytes |-> SubSeq(data, 1, n)]>>
            \o DecodeFields(Tail(fields), SubSeq(data, n + 1, Len(data)))

NotRun == [result |-> Ok, trace |-> <<>>, decoded |-> <<>>, ran |-> FALSE]

\* try_from with its two statements exchanged: the payload first.
InstructionTryFrom_payload_first(decl, accts, data, aligned) ==
    LET d == try_from_bytes(decl.fields, data, aligned) IN
    IF ~d.ok THEN [NotRun EXCEPT !.result = d, !.trace = <<Event("decode", 0)>>]
    ELSE LET a == AccountsTryFrom(decl, accts) IN
         [NotRun EXCEPT !.result = a.result,
                        !.trace = <<Event("decode", 0)>> \o a.trace,
                        !.decoded = IF a.result.ok THEN DecodeFields(decl.fields, data)
                                    ELSE <<>>]

\* impl TryFrom<(&[AccountInfo], &[u8])> for [<$name Instruction>]: the
\* accounts first, the payload second.
InstructionTryFrom(decl, accts, data, aligned) ==
    LET a == AccountsTryFrom(decl, accts) IN
    IF ~a.result.ok THEN [NotRun EXCEPT !.result = a.result, !.trace = a.trace]
    ELSE LET d == try_from_bytes(decl.fields, data, aligned) IN
         IF ~d.ok
         THEN [NotRun EXCEPT !.result = d, !.trace = Append(a.trace, Event("decode", 0))]
         ELSE [NotRun EXCEPT !.trace = Append(a.trace, Event("decode", 0)),
                             !.decoded = DecodeFields(decl.fields, data)]

\* [<$name Instruction>]::try_from((accounts, data))?.process(): the body runs
\* on a successful try_from alone; what it returns is the body's business.
TryFromAndProcess(decl, accts, data, aligned, body) ==
    LET t == InstructionTryFrom(decl, accts, data, aligned) IN
    IF ~t.result.ok THEN t
    ELSE [t EXCEPT !.result = body, !.trace = Append(t.trace, Event("process", 0)),
                   !.ran = TRUE]

\* What a process body may return.
BodyResults == {Ok, Err("InvalidArgument")}

\* u64::from_le_bytes, for byte strings with small values.
RECURSIVE from_le_bytes(_)
from_le_bytes(bytes) ==
    IF bytes = <<>> THEN 0 ELSE Head(bytes) + 256 * from_le_bytes(Tail(bytes))

----------------------------------------------------------------------------
(* The dispatch routine generate_program_code emits.                       *)

\* The code of the variant `name` in an error domain (`e as u32`).
VariantCode(error, name) ==
    LET i == CHOOSE k \in 1..Len(error.variants) : error.variants[k].name = name
    IN error.variants[i].code

\* The identity test left out.
check_program_id_skipped(id) == Ok

\* `if program_id != &crate::ID { return Err(IncorrectProgramId) }`.
check_program_id(id) ==
    IF id # "Program" THEN Err("IncorrectProgramId") ELSE Ok

\* The `_` arm without the error domain.
unknown_discriminator_generic(errors) == Err("InvalidInstructionData")

\* The `_` arm: the first error domain's InvalidDiscriminator, or the generic
\* error when no domain was found.
unknown_discriminator(errors) ==
    IF errors # <<>> THEN Custom(VariantCode(errors[1], "InvalidDiscriminator"))
    ELSE Err("InvalidInstructionData")

\* The arm `match instruction_data.first()` takes: the position of the first
\* arm whose literal equals the first byte, 0 for the `_` arm.
MatchArm(instructions, data) ==
    IF data # <<>> /\ \E k \in 1..Len(instructions) : instructions[k].discriminator = data[1]
    THEN CHOOSE k \in 1..Len(instructions) :
            /\ instructions[k].discriminator = data[1]
            /\ \A j \in 1..(k - 1) : instructions[j].discriminator # data[1]
    ELSE 0

\* crate::instructions::{name}Instruction: the declaration of that name.
HandlerOf(prog, name) ==
    CHOOSE k \in 1..Len(prog.decls) : Chars(prog.decls[k].name) = name

NoWork ==
    [result |-> Ok, trace |-> <<>>, decoded |-> <<>>, ran |-> FALSE,
     selected |-> 0, bound_accounts |-> <<>>, bound_data |-> <<>>]

\* process_instruction as emitted for the program's descriptors: the fallback
\* for an empty instruction set, else the identity test and the match.
process_instruction(prog, id, accts, data, aligned, body) ==
    IF prog.instructions = <<>>
    THEN [NoWork EXCEPT !.result = Err("InvalidInstructionData")]
    ELSE IF ~check_program_id(id).ok
    THEN [NoWork EXCEPT !.result = check_program_id(id)]
    ELSE LET arm == MatchArm(prog.instructions, data) IN
         IF arm = 0
         THEN [NoWork EXCEPT !.result = unknown_discriminator(prog.errors),
                             !.trace = <<Event("match", 0)>>]
         ELSE LET h == HandlerOf(prog, prog.instructions[arm].name)
                  t == TryFromAndProcess(prog.decls[h], accts, Tail(data), aligned, body)
              IN [result |-> t.result, trace |-> <<Event("match", 0)>> \o t.trace,
                  decoded |-> t.decoded, ran |-> t.ran, selected |-> h,
                  bound_accounts |-> accts, bound_data |-> Tail(data)]

----------------------------------------------------------------------------
(* generate_program_code: the generated source as the sequence of its      *)
(* items, each with the text copied into it.                               *)

Item(kind, name, body) == [kind |-> kind, name |-> name, body |-> body]

\* The `use` lines.
UseItems(errors) ==
    <<Item("use", "shank::ShankInstruction", <<>>)>>
    \o (IF errors # <<>>
        THEN <<Item("use", "shank::ShankType", <<>>),
               Item("use", "pinocchio::program_error::ProgramError", <<>>)>>
        ELSE <<>>)

\* An error domain's enum and its conversion into ProgramError.
ErrorItems(error) ==
    <<Item("error_enum", error.name, error.variants),
      Item("from_impl", error.name, <<>>)>>

\* One variant of ProgramInstructions: its #[account(..)] attributes and its
\* fields.
InstructionVariant(instruction) ==
    [name |-> instruction.name, accounts |-> instruction.accounts,
     fields |-> instruction.fields]

\* One `Some(tag) =>` arm of the dispatch routine.
DispatchArm(instruction) ==
    [discriminator |-> instruction.discriminator, name |-> instruction.name]

\* The `_` arm: the first error domain, if any.
DefaultArm(errors) == IF errors # <<>> THEN errors[1].name ELSE <<>>

generate_program_code(instructions, errors, state_structs) ==
    LET head == UseItems(errors)
                    \o Concat([i \in 1..Len(errors) |-> ErrorItems(errors[i])])
    IN IF instructions = <<>>
       THEN head \o <<Item("instruction_enum", "ProgramInstructions", <<>>),
                      Item("fallback", "process_instruction", <<>>)>>
       ELSE head
            \o <<Item("instruction_enum", "ProgramInstructions",
                      [i \in 1..Len(instructions) |-> InstructionVariant(instructions[i])])>>
            \o [i \in 1..Len(state_structs) |->
                    Item("state_struct", state_structs[i].name, state_structs[i].fields)]
            \o <<Item("dispatch", DefaultArm(errors),
                      [i \in 1..Len(instructions) |-> DispatchArm(instructions[i])])>>

----------------------------------------------------------------------------
(* SpecValidate: one rule applied to one account.                          *)

NoAccount == [is_signer |-> FALSE, is_writable |-> FALSE, owner |-> "System", lamports |-> 0]

ValidateIdle ==
    /\ v_rule = Rule("any", FALSE)
    /\ v_account = NoAccount
    /\ v_result = Ok
    /\ v_pc = "idle"

ValidateSlot ==
    /\ v_pc = "ready"
    /\ v_result' = validate_account(v_account, v_rule)
    /\ v_pc' = "validated"
    /\ UNCHANGED <<v_rule, v_account, parseVars, errorVars, generateVars, dispatchVars, pdaVars, lifecycleVars, stateVars, borrowVars, deadlineVars>>

----------------------------------------------------------------------------
(* The build script's state parser.                                        *)

\* str::split_whitespace: the pieces between runs of whitespace.
split_whitespace(s) ==
    SelectSeq(split([i \in 1..Len(s) |-> IF s[i] \in Whitespace THEN " " ELSE s[i]], " "),
              LAMBDA piece : piece # <<>>)

\* str::strip_prefix: None is <<>>, Some(rest) is <<rest>>.
strip_prefix(s, p) ==
    IF starts_with(s, p) THEN <<SubSeq(s, Len(p) + 1, Len(s))>> ELSE <<>>

\* extract_struct_name: None is <<>>, Some(name) is <<name>>.
extract_struct_name(line) ==
    LET parts == split_whitespace(line) IN
    IF Len(parts) >= 3 /\ parts[1] = Chars("pub") /\ parts[2] = Chars("struct")
    THEN <<trim(trim_end_matches(parts[3], "{"))>>
    ELSE <<>>

\* parse_state_field_line: None is <<>>, Some(field) is <<field>>.
parse_state_field_line(line) ==
    LET colon_pos == find(line, ":") IN
    IF colon_pos = 0 THEN <<>>
    ELSE LET field_part == SubSeq(line, 1, colon_pos - 1)
             type_part == SubSeq(line, colon_pos + 1, Len(line))
             stripped == strip_prefix(trim(field_part), Chars("pub "))
         IN IF stripped = <<>> THEN <<>>
            ELSE <<[name |-> trim(stripped[1]),
                    field_type |-> trim_end_matches(trim(type_part), ",")]>>

StateParserStart == [structs |-> <<>>, current_struct |-> <<>>, in_struct |-> FALSE]

\* One pass of parse_define_state_macro's loop body over a line.
StateParserStep(st, raw) ==
    LET line == trim(raw) IN
    IF starts_with(line, Chars("pub struct")) /\ contains(line, <<"{">>)
    THEN LET struct_name == extract_struct_name(line) IN
         IF struct_name # <<>>
         THEN [st EXCEPT !.current_struct = <<[name |-> struct_name[1], fields |-> <<>>]>>,
                         !.in_struct = TRUE]
         ELSE st
    ELSE IF line = <<"}">> /\ st.in_struct
    THEN [st EXCEPT !.structs = @ \o st.current_struct,
                    !.current_struct = <<>>,
                    !.in_struct = FALSE]
    ELSE IF st.in_struct /\ starts_with(line, Chars("pub ")) /\ contains(line, <<":">>)
    THEN LET field == parse_state_field_line(line) IN
         IF field # <<>> /\ st.current_struct # <<>>
         THEN [st EXCEPT !.current_struct[1].fields = @ \o field]
         ELSE st
    ELSE st

RECURSIVE StateParserLoop(_, _)
StateParserLoop(st, ls) ==
    IF ls = <<>> THEN st ELSE StateParserLoop(StateParserStep(st, Head(ls)), Tail(ls))

\* parse_define_state_macro: None and Some(structs) are the list of structs,
\* which is never empty in Some.
parse_define_state_macro(content) ==
    LET start == find(content, "{") IN
    IF start = 0 THEN <<>>
    ELSE StateParserLoop(StateParserStart, lines(ExtractBraces(content, start))).structs

\* The positions at which the pattern starts in the text, ascending.
RECURSIVE Ascending(_)
Ascending(S) ==
    IF S = {} THEN <<>>
    ELSE LET least == CHOOSE i \in S : \A k \in S : i <= k
         IN <<least>> \o Ascending(S \ {least})

Occurrences(content, p) ==
    Ascending({i \in 1..(Len(content) - Len(p) + 1) :
                  \A k \in 1..Len(p) : content[i + k - 1] = p[k]})

\* parse_state_file: the structs of every define_state! found in the file,
\* each occurrence of the marker parsed from where it stands.
parse_state_file(content) ==
    LET starts == Occurrences(content, Chars("define_state!")) IN
    Concat([i \in 1..Len(starts) |->
                parse_define_state_macro(SubSeq(content, starts[i], Len(content)))])

\* extract_state_metadata over the files it reads, in the order read.
extract_state_metadata(files) ==
    Concat([i \in 1..Len(files) |-> parse_state_file(files[i])])

\* A state file as its author writes it (examples/*/state/mod.rs).  The macro
\* matches tokens, so it takes the first three layouts alike:
\*   lines              a struct's head, fields and closing brace on lines
\*                      of their own,
\*   one_line_struct    each struct on one line,
\*   marker_in_comment  as lines, under a comment that names the macro,
\*   no_macro           a file that declares no record.
StateLayouts == {"lines", "one_line_struct", "marker_in_comment", "no_macro"}

StateFieldText(f) == Chars("pub ") \o f.name \o <<":", " ">> \o f.field_type

RECURSIVE JoinFields(_)
JoinFields(fs) ==
    IF fs = <<>> THEN <<>>
    ELSE IF Len(fs) = 1 THEN StateFieldText(fs[1])
    ELSE StateFieldText(fs[1]) \o <<",", " ">> \o JoinFields(Tail(fs))

StructBlock(s, layout) ==
    IF layout = "one_line_struct"
    THEN Indent(4) \o Chars("pub struct") \o <<" ">> \o s.name \o <<" ", "{", " ">>
            \o JoinFields(s.fields) \o <<" ", "}", NL>>
    ELSE Indent(4) \o Chars("pub struct") \o <<" ">> \o s.name \o <<" ", "{", NL>>
            \o Concat([i \in 1..Len(s.fields) |->
                          Indent(8) \o StateFieldText(s.fields[i]) \o <<",", NL>>])
            \o Indent(4) \o <<"}", NL>>

StateFile(structs, layout) ==
    Chars("use crate::define_state;") \o <<NL, NL>>
    \o (IF layout = "marker_in_comment"
        THEN Chars("// Records declared with define_state!") \o <<NL>> ELSE <<>>)
    \o (IF layout = "no_macro" THEN <<>>
        ELSE Chars("define_state!") \o <<" ", "{", NL>>
             \o Concat([i \in 1..Len(structs) |-> StructBlock(structs[i], layout)])
             \o <<"}", NL>>)

----------------------------------------------------------------------------
(* SpecParse: a declaration is written as text and the build script parses *)
(* the text.                                                               *)

\* Most account slots and most data fields of a declaration.
MaxSlots == 2

MaxFields == 1

\* Largest discriminant the declarations of the model carry.
MaxDiscriminant == 1

\* Account names, each with the description its line carries.  `data` is an
\* identifier like any other to the macro ($account:ident).
AccountNames == {"owner", "counter", "data"}

DescOf(name) ==
    CASE name = "owner" -> "Owner of the counter"
      [] name = "counter" -> "Counter PDA: the state"
      [] name = "data" -> "Data account"
      [] name = "target" -> "Account to create"
      [] name = "system_program" -> "System program"

DeclRules ==
    {Rule("signer", FALSE), Rule("signer", TRUE), Rule("uninitialized", FALSE),
     Rule("uninitialized", TRUE), Rule("program", TRUE), Rule("any", FALSE)}

Slot(name, rule) == [name |-> name, rule |-> rule, desc |-> DescOf(name)]

SlotsOver(names, rules) == {Slot(n, r) : n \in names, r \in rules}

Field(name, type) == [name |-> name, type |-> type]

\* The field types: two of the examples' and a path ($field_type:ty takes any
\* type, a path such as pinocchio's Pubkey, a [u8; 32], included).
FieldPool ==
    {Field("amount", "[u8; 8]"), Field("side", "u8"),
     Field("authority", "pinocchio::pubkey::Pubkey")}

\* Sequences of at most n elements of S.
SeqUpTo(S, n) == UNION {[1..k -> S] : k \in 0..n}

\* A struct's fields have distinct names.
DistinctNames(s) == \A i, j \in 1..Len(s) : i # j => s[i].name # s[j].name

ParseDeclarations ==
    {[discriminant |-> d, name |-> "Increment", accounts |-> a, fields |-> f] :
        d \in 0..MaxDiscriminant,
        a \in {s \in SeqUpTo(SlotsOver(AccountNames, DeclRules), MaxSlots) : DistinctNames(s)},
        f \in {s \in SeqUpTo(FieldPool, MaxFields) : DistinctNames(s)}}

NoDecl == [discriminant |-> 0, name |-> "Increment", accounts |-> <<>>, fields |-> <<>>]

ParseIdle ==
    /\ p_decl = NoDecl
    /\ p_layout = "lines"
    /\ p_content = <<>>
    /\ p_meta = <<>>
    /\ p_pc = "idle"

ParseInstruction ==
    /\ p_pc = "ready"
    /\ p_meta' = parse_instruction_file(p_content)
    /\ p_pc' = "parsed"
    /\ UNCHANGED <<p_decl, p_layout, p_content, validateVars, errorVars, generateVars, dispatchVars, pdaVars, lifecycleVars, stateVars, borrowVars, deadlineVars>>

----------------------------------------------------------------------------
(* SpecErrors: an error table is written as text and the build script      *)
(* parses the text.                                                        *)

\* Most variants of an error table.
MaxVariants == 3

VariantNames == {"InvalidDiscriminator", "Unauthorized", "CounterKeyIncorrect"}

\* The codes an author may write, as in examples/counter/error.rs.
VariantCodes == {6001, 6002}

ErrorTables ==
    {[name |-> "CounterProgramError", variants |-> v] :
        v \in {s \in SeqUpTo([name : VariantNames, code : VariantCodes], MaxVariants) :
                    DistinctNames(s)}}

NoTable == [name |-> "CounterProgramError", variants |-> <<>>]

ErrorsIdle ==
    /\ e_decl = NoTable
    /\ e_content = <<>>
    /\ e_meta = <<>>
    /\ e_pc = "idle"

ParseErrors ==
    /\ e_pc = "ready"
    /\ e_meta' = extract_error_metadata(e_content)
    /\ e_pc' = "parsed"
    /\ UNCHANGED <<e_decl, e_content, validateVars, parseVars, generateVars, dispatchVars, pdaVars, lifecycleVars, stateVars, borrowVars, deadlineVars>>

----------------------------------------------------------------------------
(* Spec: a program is built from its sources; an operation arrives and the *)
(* generated process_instruction handles it.                               *)

\* Scenario A's instruction.
CreateDecl ==
    [discriminant |-> 0, name |-> "Create",
     accounts |-> <<Slot("owner", Rule("signer", TRUE)),
                    Slot("target", Rule("uninitialized", TRUE))>>,
     fields |-> <<Field("amount", "[u8; 8]")>>]

\* examples/counter/instructions/initialize_counter.rs
InitializeCounterDecl ==
    [discriminant |-> 0, name |-> "InitializeCounter",
     accounts |-> <<Slot("owner", Rule("signer", TRUE)),
                    Slot("counter", Rule("uninitialized", FALSE)),
                    Slot("system_program", Rule("any", FALSE))>>,
     fields |-> <<>>]

\* examples/counter/instructions/increment.rs
IncrementDecl ==
    [discriminant |-> 1, name |-> "Increment",
     accounts |-> <<Slot("owner", Rule("signer", FALSE)),
                    Slot("counter", Rule("program", TRUE))>>,
     fields |-> <<>>]

\* A third instruction on the counter, whose payload is one aligned integer.
DecrementDecl(d) ==
    [discriminant |-> d, name |-> "Decrement",
     accounts |-> <<Slot("owner", Rule("signer", FALSE)),
                    Slot("counter", Rule("program", TRUE))>>,
     fields |-> <<Field("amount", "u64")>>]

\* examples/counter/error.rs
CounterProgramError ==
    [name |-> "CounterProgramError",
     variants |-> <<[name |-> "InvalidDiscriminator", code |-> 6001],
                    [name |-> "Unauthorized", code |-> 6002]>>]

\* The source trees the model builds: the declarations in the order read_dir
\* lists their files, and the error domains of src/error.rs.
ProgramSources ==
    {[decls |-> <<>>, errors |-> <<>>],
     [decls |-> <<>>, errors |-> <<CounterProgramError>>],
     [decls |-> <<CreateDecl>>, errors |-> <<CounterProgramError>>],
     [decls |-> <<IncrementDecl, InitializeCounterDecl>>, errors |-> <<CounterProgramError>>],
     [decls |-> <<IncrementDecl, DecrementDecl(1)>>, errors |-> <<>>],
     [decls |-> <<DecrementDecl(2), InitializeCounterDecl>>, errors |-> <<>>]}

\* main: the descriptors the dispatch routine is generated from, beside the
\* handlers the macro generates from the same declarations.
Build(src) ==
    [decls |-> src.decls,
     instructions |->
        extract_instruction_metadata(
            [i \in 1..Len(src.decls) |-> InstructionFile(src.decls[i])]),
     errors |-> src.errors]

\* Longest account list and longest payload body (after the tag) drawn freely.
MaxAccounts == 3

MaxBody == 1

Account(s, w, o, l) == [is_signer |-> s, is_writable |-> w, owner |-> o, lamports |-> l]

\* A funded signer, an empty system account, a read-only funded signer and a
\* live account of the program.
AccountPool ==
    {Account(TRUE, TRUE, "System", 1), Account(FALSE, TRUE, "System", 0),
     Account(TRUE, FALSE, "System", 5), Account(FALSE, TRUE, "Program", 1)}

\* The payload bodies of scenarios A and C, and one byte more.
ScenarioBodies ==
    {<<1, 0, 0, 0, 0, 0, 0, 0>>, <<1, 0, 0, 0, 0, 0, 0>>, <<1, 0, 0, 0, 0, 0, 0, 0, 0>>}

DeclaredTags == {d.discriminant : d \in UNION {{s.decls[i] : i \in 1..Len(s.decls)} : s \in ProgramSources}}

\* Every declared tag and one no program declares.
Tags == DeclaredTags \cup {1 + CHOOSE t \in DeclaredTags : \A u \in DeclaredTags : u <= t}

Payloads ==
    {<<>>} \cup {<<t>> \o b : t \in Tags, b \in SeqUpTo({0, 1}, MaxBody) \cup ScenarioBodies}

DispatchIdle ==
    /\ program = Build([decls |-> <<>>, errors |-> <<>>])
    /\ program_id = "Program"
    /\ accounts = <<>>
    /\ instruction_data = <<>>
    /\ outcome = NoWork
    /\ pc = "idle"

\* The entrypoint hands the operation to process_instruction.  Whether the
\* payload after the tag is aligned for the data struct is the loader's
\* choice, and the result of a process body is the body's.
Dispatch ==
    /\ pc = "ready"
    /\ \E aligned \in BOOLEAN, body \in BodyResults :
        outcome' = process_instruction(program, program_id, accounts,
                                       instruction_data, aligned, body)
    /\ pc' = "done"
    /\ UNCHANGED <<program, program_id, accounts, instruction_data,
                   validateVars, parseVars, errorVars, generateVars, pdaVars, lifecycleVars, stateVars, borrowVars, deadlineVars>>

----------------------------------------------------------------------------
(* SpecGenerate: the three descriptor sets are turned into source.         *)

\* Most state records of a program.
MaxStates == 2

StateField(name, type) == [name |-> Chars(name), field_type |-> Chars(type)]

\* examples/counter/state/mod.rs, and a second record.
CounterState ==
    [name |-> Chars("Counter"),
     fields |-> <<StateField("owner", "[u8; 32]"), StateField("count", "[u8; 8]"),
                  StateField("bump", "u8")>>]

ConfigState ==
    [name |-> Chars("Config"), fields |-> <<StateField("admin", "[u8; 32]")>>]

\* examples/vote/state/mod.rs
PlatformState ==
    [name |-> Chars("Platform"),
     fields |-> <<StateField("authority", "[u8; 32]"), StateField("fee", "[u8; 2]"),
                  StateField("platform_bump", "u8"), StateField("vault_bump", "u8")>>]

PositionState ==
    [name |-> Chars("Position"),
     fields |-> <<StateField("amount", "[u8; 8]"), StateField("side", "u8"),
                  StateField("bump", "u8")>>]

StatePool == {CounterState, ConfigState, PlatformState, PositionState}

DistinctStates(s) == \A i, j \in 1..Len(s) : i # j => s[i].name # s[j].name

StateSets == {s \in SeqUpTo(StatePool, MaxStates) : DistinctStates(s)}

\* The instruction descriptors of the source trees of the model.
InstructionSets ==
    {extract_instruction_metadata([i \in 1..Len(src.decls) |-> InstructionFile(src.decls[i])]) :
        src \in ProgramSources}

\* The error domains of src/error.rs: none, or those of a table.
ErrorSets ==
    {<<>>} \cup {extract_error_metadata(ErrorFile(t)) :
                    t \in {[name |-> "CounterProgramError", variants |-> v] :
                            v \in {<<[name |-> "InvalidDiscriminator", code |-> 6001]>>,
                                   <<[name |-> "InvalidDiscriminator", code |-> 6001],
                                     [name |-> "Unauthorized", code |-> 6002]>>}}}

GenerateIdle ==
    /\ g_instructions = <<>>
    /\ g_errors = <<>>
    /\ g_state_structs = <<>>
    /\ g_code = <<>>
    /\ g_pc = "idle"

Generate ==
    /\ g_pc = "ready"
    /\ g_code' = generate_program_code(g_instructions, g_errors, g_state_structs)
    /\ g_pc' = "generated"
    /\ UNCHANGED <<g_instructions, g_errors, g_state_structs,
                   validateVars, parseVars, errorVars, dispatchVars, pdaVars, lifecycleVars, stateVars, borrowVars, deadlineVars>>

----------------------------------------------------------------------------
(* SpecState: the records are written as text and the build script parses  *)
(* the text.                                                               *)

StateIdle ==
    /\ s_decl = <<>>
    /\ s_layout = "lines"
    /\ s_content = <<>>
    /\ s_meta = <<>>
    /\ s_pc = "idle"

ParseState ==
    /\ s_pc = "ready"
    /\ s_meta' = extract_state_metadata(<<s_content>>)
    /\ s_pc' = "parsed"
    /\ UNCHANGED <<s_decl, s_layout, s_content, validateVars, parseVars, errorVars,
                   generateVars, dispatchVars, pdaVars, lifecycleVars, borrowVars, deadlineVars>>

----------------------------------------------------------------------------
(* assert_pda! and validate_pdas!                                          *)

\* The addresses of the model: 0 .. AddressSpace - 1.
AddressSpace == 4

\* The hash absorbs the seeds one after another.
RECURSIVE Absorb(_, _)
Absorb(h, seeds) ==
    IF seeds = <<>> THEN h
    ELSE Absorb((h * 3 + Head(seeds)) % AddressSpace, Tail(seeds))

\* The word a program id contributes to the hash.
IdWord(id) == IF id = "Program" THEN 1 ELSE 2

\* pinocchio_pubkey::derive_address(&seeds, Some(bump), &program_id): a hash
\* of the seeds, the bump and the program id, nothing else.  Distinct inputs
\* may collide.
derive_address(seeds, bump, id) ==
    (Absorb(0, seeds) * 3 + bump + IdWord(id)) % AddressSpace

\* assert_pda! comparing against the address derived with bump 0.
assert_pda_without_bump(account, seeds, bump, error) ==
    LET expected == derive_address(seeds, 0, "Program") IN
    IF account.key # expected THEN error ELSE Ok

\* assert_pda!($account, seeds: [..], bump: $bump, error: $error): returns
\* Err($error.into()) from the enclosing function on a mismatch, else falls
\* through.
assert_pda(account, seeds, bump, error) ==
    LET expected == derive_address(seeds, bump, "Program") IN
    IF account.key # expected THEN error ELSE Ok

\* validate_pdas!: one assert_pda! per entry, in the order written; the
\* first return ends the function.  checked counts the assertions evaluated.
RECURSIVE validate_pdas(_, _)
validate_pdas(batch, checked) ==
    IF batch = <<>> THEN [result |-> Ok, checked |-> checked]
    ELSE LET e == Head(batch)
             r == assert_pda(e.account, e.seeds, e.bump, e.error)
         IN IF ~r.ok THEN [result |-> r, checked |-> checked + 1]
            ELSE validate_pdas(Tail(batch), checked + 1)

(* SpecPda: one validate_pdas! call. *)

MaxAssertions == 2

\* The seeds (each a byte string, here its digest), bumps and errors the
\* assertions of the model name.
SeedLists == {<<1>>, <<2>>, <<1, 2>>}

Bumps == {254, 255}

PdaErrors == {Custom(6003), Err("InvalidSeeds")}

Assertions ==
    [account : [key : 0..(AddressSpace - 1)], seeds : SeedLists, bump : Bumps,
     error : PdaErrors]

NotChecked == [result |-> Ok, checked |-> 0]

PdaIdle ==
    /\ a_batch = <<>>
    /\ a_result = NotChecked
    /\ a_pc = "idle"

ValidatePdas ==
    /\ a_pc = "ready"
    /\ a_result' = validate_pdas(a_batch, 0)
    /\ a_pc' = "checked"
    /\ UNCHANGED <<a_batch, validateVars, parseVars, errorVars, generateVars, dispatchVars, lifecycleVars, stateVars, borrowVars, deadlineVars>>

----------------------------------------------------------------------------
(* Accounts at run time: load!, load_mut!, create_pda!, close_account!.    *)

\* Balances are u64; the model keeps the wrap-around at 2^LamportBits.
LamportBits == 11

LamportsModulus == 2 ^ LamportBits

\* An account as the handlers see it.  buffer is the memory at the account's
\* data pointer, of which the first data_len bytes are the account's storage.
RuntimeAccount(owner, lamports, data) ==
    [owner |-> owner, lamports |-> lamports, data_len |-> Len(data), buffer |-> data]

Storage(account) == SubSeq(account.buffer, 1, account.data_len)

Zeros(n) == [i \in 1..n |-> 0]

\* examples/counter/state/mod.rs and examples/vote/state/mod.rs
CounterRecord ==
    [name |-> "Counter",
     fields |-> <<Field("owner", "[u8; 32]"), Field("count", "[u8; 8]"), Field("bump", "u8")>>]

PositionRecord ==
    [name |-> "Position",
     fields |-> <<Field("amount", "[u8; 8]"), Field("side", "u8"), Field("bump", "u8")>>]

RecordTypes == {CounterRecord, PositionRecord}

\* bytemuck::try_from_bytes(_mut)::<T> over the account's storage, with the
\* error mapped to InvalidAccountData.  The host aligns account data to 8.
ViewOf(account, type) ==
    IF try_from_bytes(type.fields, Storage(account), TRUE).ok THEN Ok
    ELSE Err("InvalidAccountData")

\* A load that takes any storage at least as long as the record.
load_mut_prefix(account, type) ==
    IF try_from_bytes_prefix(type.fields, Storage(account), TRUE).ok THEN Ok
    ELSE Err("InvalidAccountData")

load(account, type) == ViewOf(account, type)

load_mut(account, type) == ViewOf(account, type)

load_unchecked(account, type) == ViewOf(account, type)

\* with_state!: load_mut!, then the body, which here sets the record's last
\* byte; a failed load returns before the body.
with_state(ledger, key, type) ==
    LET r == load_mut(ledger[key], type) IN
    IF ~r.ok THEN [result |-> r, ledger |-> ledger]
    ELSE [result |-> Ok,
          ledger |-> [ledger EXCEPT ![key].buffer[DataLEN(type.fields)] = 1]]

\* Rent::get()?.minimum_balance(space)
minimum_balance(space) == 1000

\* create_pda!: the system program's CreateAccount, signed for the new
\* account with its seeds.
\* create_pda! whose CreateAccount allocates the storage and neither funds
\* the account nor assigns it.
create_pda_allocate_only(ledger, from, to, space, authorized) ==
    IF ~authorized THEN [result |-> Err("MissingRequiredSignature"), ledger |-> ledger]
    ELSE IF ledger[to].lamports > 0 \/ ledger[to].data_len > 0 \/ ledger[to].owner # "System"
    THEN [result |-> Custom(0), ledger |-> ledger]
    ELSE [result |-> Ok,
          ledger |-> [ledger EXCEPT ![to] = RuntimeAccount("System", 0, Zeros(space))]]

create_pda(ledger, from, to, space, authorized) ==
    LET lamports == minimum_balance(space) IN
    IF ~authorized THEN [result |-> Err("MissingRequiredSignature"), ledger |-> ledger]
    ELSE IF ledger[to].lamports > 0 \/ ledger[to].data_len > 0 \/ ledger[to].owner # "System"
    THEN [result |-> Custom(0), ledger |-> ledger]
    ELSE IF ledger[from].data_len > 0 \/ ledger[from].owner # "System"
    THEN [result |-> Err("InvalidArgument"), ledger |-> ledger]
    ELSE IF ledger[from].lamports < lamports
    THEN [result |-> Custom(1), ledger |-> ledger]
    ELSE [result |-> Ok,
          ledger |-> [ledger EXCEPT ![from].lamports = @ - lamports,
                                    ![to] = RuntimeAccount("Program", lamports, Zeros(space))]]

\* AccountInfo::resize(new_len): growth is zero-filled, shrinking leaves the
\* memory as it is.
resize(account, new_len) ==
    [account EXCEPT
        !.data_len = new_len,
        !.buffer = [i \in 1..(IF Len(account.buffer) > new_len THEN Len(account.buffer) ELSE new_len) |->
                        IF i > account.data_len /\ i <= new_len THEN 0 ELSE account.buffer[i]]]

\* AccountInfo::close() that leaves the account as it is.
close_nothing(account) == account

\* AccountInfo::close(): the owner, the balance and the data length are
\* zeroed (the zero key is the system program's); the memory stays.
close(account) == [account EXCEPT !.owner = "System", !.lamports = 0, !.data_len = 0]

\* The block that marks the account: data[0] = 0xff unless the storage is
\* empty.
mark_closed(account) ==
    IF account.data_len # 0 THEN [account EXCEPT !.buffer[1] = 255] ELSE account

\* close_account!($account, $receiver).  The two lamports borrows of the
\* first statement are alive together, so the same account on both sides is
\* AccountBorrowFailed; the sum is a u64 addition, which panics in a build
\* that checks overflow and wraps in one that does not.
close_account(ledger, account, receiver, overflow_checks) ==
    LET sum == ledger[receiver].lamports + ledger[account].lamports IN
    IF account = receiver THEN [result |-> Err("AccountBorrowFailed"), ledger |-> ledger]
    ELSE IF sum >= LamportsModulus /\ overflow_checks
    THEN [result |-> Err("Panic"), ledger |-> ledger]
    ELSE [result |-> Ok,
          ledger |-> [ledger EXCEPT
                        ![receiver].lamports = sum % LamportsModulus,
                        ![account] = close(resize(mark_closed(ledger[account]), 1))]]

\* The account as validate_account! sees it.
Info(account, is_signer, is_writable) ==
    [is_signer |-> is_signer, is_writable |-> is_writable,
     owner |-> account.owner, lamports |-> account.lamports]

(* SpecLifecycle: handlers creating, reading, writing and closing accounts. *)

MaxSteps == 3

\* examples/vote/instructions/redeem_winnings.rs closes position into vault.
Keys == {"position", "vault"}

\* A Position record in use.
LivePosition == <<7>> \o Zeros(9)

\* What an account may be when the sequence starts.
AccountStates ==
    {RuntimeAccount("Program", 1000, LivePosition),
     RuntimeAccount("Program", 1000, Zeros(9)),
     RuntimeAccount("Program", 1000, Zeros(11)),
     RuntimeAccount("Program", 1000, <<>>),
     RuntimeAccount("Program", LamportsModulus - 1, <<3>>),
     RuntimeAccount("System", 0, <<>>),
     RuntimeAccount("System", 1000, <<>>),
     RuntimeAccount("System", LamportsModulus - 1, <<>>)}

NoOperation == [op |-> "none", key |-> "position", other |-> "position", type |-> "", result |-> Ok]

Operation(op, key, other, type, result) ==
    [op |-> op, key |-> key, other |-> other, type |-> type, result |-> result]

NoLedger == [k \in Keys |-> RuntimeAccount("System", 0, <<>>)]

LifecycleIdle ==
    /\ l_ledger = NoLedger
    /\ l_overflow_checks = FALSE
    /\ l_last = NoOperation
    /\ l_before = NoLedger
    /\ l_closed = {}
    /\ l_created = {}
    /\ l_ever_closed = {}
    /\ l_steps = 0
    /\ l_pc = "idle"

\* What every operation of the sequence does besides its own effect.
Step(last, ledger) ==
    /\ l_pc = "run"
    /\ l_steps < MaxSteps
    /\ l_steps' = l_steps + 1
    /\ l_last' = last
    /\ l_before' = l_ledger
    /\ l_ledger' = ledger
    /\ UNCHANGED <<l_overflow_checks, l_pc,
                   validateVars, parseVars, errorVars, generateVars, dispatchVars, pdaVars, stateVars, borrowVars, deadlineVars>>

CreatePda ==
    \E from \in Keys, to \in Keys, type \in RecordTypes, authorized \in BOOLEAN :
        LET r == create_pda(l_ledger, from, to, DataLEN(type.fields), authorized) IN
        /\ Step(Operation("create", to, from, type.name, r.result), r.ledger)
        /\ l_closed' = IF r.result.ok THEN l_closed \ {to} ELSE l_closed
        /\ l_created' = IF r.result.ok THEN l_created \cup {to} ELSE l_created
        /\ UNCHANGED l_ever_closed

CloseAccount ==
    \E account \in Keys, receiver \in Keys :
        LET r == close_account(l_ledger, account, receiver, l_overflow_checks) IN
        /\ Step(Operation("close", account, receiver, "", r.result), r.ledger)
        /\ l_closed' = IF r.result.ok THEN l_closed \cup {account} ELSE l_closed
        /\ l_created' = IF r.result.ok THEN l_created \ {account} ELSE l_created
        /\ l_ever_closed' = IF r.result.ok THEN l_ever_closed \cup {account} ELSE l_ever_closed

ValidateProgramOwned ==
    \E key \in Keys, writable \in BOOLEAN, is_writable \in BOOLEAN :
        LET r == validate_account(Info(l_ledger[key], FALSE, is_writable), Rule("program", writable)) IN
        /\ Step(Operation("validate", key, key, "", r), l_ledger)
        /\ UNCHANGED <<l_closed, l_created, l_ever_closed, deadlineVars>>

\* An instruction declaring the slot `uninitialized` (or `uninitialized =>
\* writable`) validates the account bound to it.
ValidateUninitialized ==
    \E key \in Keys, writable \in BOOLEAN, is_writable \in BOOLEAN :
        LET r == validate_account(Info(l_ledger[key], FALSE, is_writable),
                                  Rule("uninitialized", writable)) IN
        /\ Step(Operation("validate_uninitialized", key, key, "", r), l_ledger)
        /\ UNCHANGED <<l_closed, l_created, l_ever_closed, deadlineVars>>

Load ==
    \E key \in Keys, type \in RecordTypes :
        /\ Step(Operation("load", key, key, type.name, load(l_ledger[key], type)), l_ledger)
        /\ UNCHANGED <<l_closed, l_created, l_ever_closed, deadlineVars>>

LoadUnchecked ==
    \E key \in Keys, type \in RecordTypes :
        /\ Step(Operation("load_unchecked", key, key, type.name,
                          load_unchecked(l_ledger[key], type)), l_ledger)
        /\ UNCHANGED <<l_closed, l_created, l_ever_closed, deadlineVars>>

WithState ==
    \E key \in Keys, type \in RecordTypes :
        LET r == with_state(l_ledger, key, type) IN
        /\ Step(Operation("load_mut", key, key, type.name, r.result), r.ledger)
        /\ UNCHANGED <<l_closed, l_created, l_ever_closed, deadlineVars>>

----------------------------------------------------------------------------
(* SpecBorrow: the views one handler takes on account storage.  load! and  *)
(* load_mut! borrow through borrow_data_unchecked and                      *)
(* borrow_mut_data_unchecked, which keep no record of the borrows handed   *)
(* out; with_state! clones the account reference and calls load_mut!.      *)

\* Most views a handler of the model holds at once.
MaxViews == 3

\* A view: the account it looks at, whether it is a &mut, and the macro
\* that made it.
View(key, mutable, by) == [key |-> key, mutable |-> mutable, by |-> by]

BorrowIdle ==
    /\ b_ledger = NoLedger
    /\ b_views = <<>>
    /\ b_last = Ok
    /\ b_pc = "idle"

\* One load in the handler: on success the handler holds one view more, on
\* failure the `?` leaves the handler and every view is gone.
TakeView(key, mutable, by, result) ==
    /\ b_pc = "run"
    /\ Len(b_views) < MaxViews
    /\ b_last' = result
    /\ b_views' = IF result.ok THEN Append(b_views, View(key, mutable, by)) ELSE <<>>
    /\ b_pc' = IF result.ok THEN "run" ELSE "returned"
    /\ UNCHANGED <<b_ledger, validateVars, parseVars, errorVars, generateVars,
                   dispatchVars, pdaVars, stateVars, lifecycleVars, deadlineVars>>

LoadMutView ==
    \E key \in Keys : TakeView(key, TRUE, "load_mut", load_mut(b_ledger[key], PositionRecord))

LoadView ==
    \E key \in Keys : TakeView(key, FALSE, "load", load(b_ledger[key], PositionRecord))

WithStateView ==
    \E key \in Keys : TakeView(key, TRUE, "with_state", load_mut(b_ledger[key], PositionRecord))

\* The handler stops using a view (the body of with_state! ends, or the
\* binding is used no more).
DropView ==
    /\ b_pc = "run"
    /\ \E i \in 1..Len(b_views) :
          b_views' = SubSeq(b_views, 1, i - 1) \o SubSeq(b_views, i + 1, Len(b_views))
    /\ UNCHANGED <<b_ledger, b_last, b_pc, validateVars, parseVars, errorVars, generateVars,
                   dispatchVars, pdaVars, stateVars, lifecycleVars, deadlineVars>>

----------------------------------------------------------------------------
(* SpecDeadline: the deadline of a vote (examples/vote).  An i64 is four   *)
(* 16-bit limbs, the most significant first, in two's complement; a        *)
(* [u8; 8] is a sequence of eight bytes in memory order.                   *)

i64_from_le_bytes(bytes) ==
    <<bytes[8] * 256 + bytes[7], bytes[6] * 256 + bytes[5],
      bytes[4] * 256 + bytes[3], bytes[2] * 256 + bytes[1]>>

i64_to_be_bytes(x) ==
    <<x[1] \div 256, x[1] % 256, x[2] \div 256, x[2] % 256,
      x[3] \div 256, x[3] % 256, x[4] \div 256, x[4] % 256>>

IsNegative(x) == x[1] >= 32768

\* a < b on i64.
LessThan(a, b) ==
    IF IsNegative(a) # IsNegative(b) THEN IsNegative(a)
    ELSE \E i \in 1..4 : a[i] < b[i] /\ \A j \in 1..(i - 1) : a[j] = b[j]

\* a + b on i64: the sum modulo 2^64 and whether it left the range.
wrapping_add(a, b) ==
    LET s4 == a[4] + b[4]
        s3 == a[3] + b[3] + s4 \div 65536
        s2 == a[2] + b[2] + s3 \div 65536
        s1 == a[1] + b[1] + s2 \div 65536
    IN  <<s1 % 65536, s2 % 65536, s3 % 65536, s4 % 65536>>

overflows(a, b) ==
    IsNegative(a) = IsNegative(b) /\ IsNegative(wrapping_add(a, b)) # IsNegative(a)

\* The end_timestamp of a Vote no handler has written: create_pda! hands
\* out zeroed storage.
NoTimestamp == <<0, 0, 0, 0, 0, 0, 0, 0>>

NoRead == [op |-> "", now |-> <<0, 0, 0, 0>>, vote_deadline |-> <<0, 0, 0, 0>>, result |-> Ok]

\* time_to_add as the client sends it: 0, a minute, a day, -1, i64::MAX.
TimesToAdd ==
    { <<0, 0, 0, 0, 0, 0, 0, 0>>,
      <<60, 0, 0, 0, 0, 0, 0, 0>>,
      <<128, 81, 1, 0, 0, 0, 0, 0>>,
      <<255, 255, 255, 255, 255, 255, 255, 255>>,
      <<255, 255, 255, 255, 255, 255, 255, 127>> }

\* Clock.unix_timestamp: 0, 1, 1700000000, a minute later, 1700007936.
Clocks ==
    { <<0, 0, 0, 0>>, <<0, 0, 0, 1>>, <<0, 0, 25939, 61696>>, <<0, 0, 25939, 61756>>,
      <<0, 0, 25940, 4096>> }

DeadlineIdle ==
    /\ d_time_to_add = NoTimestamp
    /\ d_clock = <<0, 0, 0, 0>>
    /\ d_overflow_checks = FALSE
    /\ d_computed = <<0, 0, 0, 0>>
    /\ d_end_timestamp = NoTimestamp
    /\ d_last = NoRead
    /\ d_pc = "idle"

\* InitializeVote: end_timestamp = (i64_from_le_bytes(time_to_add) + now).i64_to_be_bytes().
InitializeVote ==
    /\ d_pc = "ready"
    /\ LET add == i64_from_le_bytes(d_time_to_add)
           sum == wrapping_add(add, d_clock)
       IN  IF overflows(add, d_clock) /\ d_overflow_checks
           THEN /\ d_pc' = "panicked"
                /\ UNCHANGED <<d_computed, d_end_timestamp>>
           ELSE /\ d_pc' = "stored"
                /\ d_computed' = sum
                /\ d_end_timestamp' = i64_to_be_bytes(sum)
    /\ UNCHANGED <<d_time_to_add, d_clock, d_overflow_checks, d_last>>
    /\ UNCHANGED <<validateVars, parseVars, errorVars, generateVars, dispatchVars, pdaVars,
                   stateVars, borrowVars, lifecycleVars>>

\* What a handler reading the deadline leaves behind: the integer it read
\* and the result of its comparison with the clock.
ReadDeadline(op, now, vote_deadline, refused, error) ==
    /\ d_pc = "stored"
    /\ d_last' = [op |-> op, now |-> now, vote_deadline |-> vote_deadline,
                  result |-> IF refused THEN Err(error) ELSE Ok]
    /\ d_pc' = "read"
    /\ UNCHANGED <<d_time_to_add, d_clock, d_overflow_checks, d_computed, d_end_timestamp>>
    /\ UNCHANGED <<validateVars, parseVars, errorVars, generateVars, dispatchVars, pdaVars,
                   stateVars, borrowVars, lifecycleVars>>

\* let vote_deadline = i64::from_le_bytes(vote_state.end_timestamp);
\* if now > vote_deadline { return Err(VoteHasAlreadyEnded) }
InitializePosition ==
    \E now \in Clocks :
        LET vote_deadline == i64_from_le_bytes(d_end_timestamp) IN
        ReadDeadline("InitializePosition", now, vote_deadline,
                     LessThan(vote_deadline, now), "VoteHasAlreadyEnded")

UpdatePosition ==
    \E now \in Clocks :
        LET vote_deadline == i64_from_le_bytes(d_end_timestamp) IN
        ReadDeadline("UpdatePosition", now, vote_deadline,
                     LessThan(vote_deadline, now), "VoteHasAlreadyEnded")

\* let vote_deadline = i64::from_le_bytes(vote_state.end_timestamp);
\* if now < vote_deadline { return Err(VoteIsStillRunning) }
RedeemWinnings ==
    \E now \in Clocks :
        LET vote_deadline == i64_from_le_bytes(d_end_timestamp) IN
        ReadDeadline("RedeemWinnings", now, vote_deadline,
                     LessThan(now, vote_deadline), "VoteIsStillRunning")

----------------------------------------------------------------------------
(* The specifications.                                                     *)

vars == <<validateVars, parseVars, errorVars, generateVars, dispatchVars, pdaVars, lifecycleVars, stateVars, borrowVars, deadlineVars>>

InitValidate ==
    /\ v_rule \in Rules
    /\ v_account \in AccountInfo
    /\ v_result = Ok
    /\ v_pc = "ready"
    /\ ParseIdle
    /\ ErrorsIdle
    /\ GenerateIdle
    /\ DispatchIdle
    /\ PdaIdle
    /\ LifecycleIdle
    /\ StateIdle
    /\ BorrowIdle
    /\ DeadlineIdle

NextValidate == ValidateSlot

SpecValidate == InitValidate /\ [][NextValidate]_vars

InitParse ==
    /\ p_decl \in ParseDeclarations
    /\ p_layout \in Layouts
    /\ p_content = InstructionFileIn(p_decl, p_layout)
    /\ p_meta = <<>>
    /\ p_pc = "ready"
    /\ ValidateIdle
    /\ ErrorsIdle
    /\ GenerateIdle
    /\ DispatchIdle
    /\ PdaIdle
    /\ LifecycleIdle
    /\ StateIdle
    /\ BorrowIdle
    /\ DeadlineIdle

NextParse == ParseInstruction

SpecParse == InitParse /\ [][NextParse]_vars

InitErrors ==
    /\ e_decl \in ErrorTables
    /\ e_content = ErrorFile(e_decl)
    /\ e_meta = <<>>
    /\ e_pc = "ready"
    /\ ValidateIdle
    /\ ParseIdle
    /\ GenerateIdle
    /\ DispatchIdle
    /\ PdaIdle
    /\ LifecycleIdle
    /\ StateIdle
    /\ BorrowIdle
    /\ DeadlineIdle

NextErrors == ParseErrors

SpecErrors == InitErrors /\ [][NextErrors]_vars

InitGenerate ==
    /\ g_instructions \in InstructionSets
    /\ g_errors \in ErrorSets
    /\ g_state_structs \in StateSets
    /\ g_code = <<>>
    /\ g_pc = "ready"
    /\ ValidateIdle
    /\ ParseIdle
    /\ ErrorsIdle
    /\ DispatchIdle
    /\ PdaIdle
    /\ LifecycleIdle
    /\ StateIdle
    /\ BorrowIdle
    /\ DeadlineIdle

NextGenerate == Generate

SpecGenerate == InitGenerate /\ [][NextGenerate]_vars

InitPda ==
    /\ a_batch \in SeqUpTo(Assertions, MaxAssertions)
    /\ a_result = NotChecked
    /\ a_pc = "ready"
    /\ ValidateIdle
    /\ ParseIdle
    /\ ErrorsIdle
    /\ GenerateIdle
    /\ DispatchIdle
    /\ LifecycleIdle
    /\ StateIdle
    /\ BorrowIdle
    /\ DeadlineIdle

NextPda == ValidatePdas

SpecPda == InitPda /\ [][NextPda]_vars

InitLifecycle ==
    /\ l_ledger \in [Keys -> AccountStates]
    /\ l_overflow_checks \in BOOLEAN
    /\ l_last = NoOperation
    /\ l_before = l_ledger
    /\ l_closed = {}
    /\ l_created = {}
    /\ l_ever_closed = {}
    /\ l_steps = 0
    /\ l_pc = "run"
    /\ ValidateIdle
    /\ ParseIdle
    /\ ErrorsIdle
    /\ GenerateIdle
    /\ DispatchIdle
    /\ PdaIdle
    /\ StateIdle
    /\ BorrowIdle
    /\ DeadlineIdle

NextLifecycle ==
    \/ CreatePda
    \/ CloseAccount
    \/ ValidateProgramOwned
    \/ ValidateUninitialized
    \/ Load
    \/ LoadUnchecked
    \/ WithState

SpecLifecycle == InitLifecycle /\ [][NextLifecycle]_vars

InitState ==
    /\ s_decl \in StateSets
    /\ s_layout \in StateLayouts
    /\ s_content = StateFile(s_decl, s_layout)
    /\ s_meta = <<>>
    /\ s_pc = "ready"
    /\ ValidateIdle
    /\ ParseIdle
    /\ ErrorsIdle
    /\ GenerateIdle
    /\ DispatchIdle
    /\ PdaIdle
    /\ LifecycleIdle
    /\ BorrowIdle
    /\ DeadlineIdle

NextState == ParseState

SpecState == InitState /\ [][NextState]_vars

InitBorrow ==
    /\ b_ledger \in [Keys -> {RuntimeAccount("Program", 1000, LivePosition),
                              RuntimeAccount("Program", 1000, <<>>)}]
    /\ b_views = <<>>
    /\ b_last = Ok
    /\ b_pc = "run"
    /\ ValidateIdle
    /\ ParseIdle
    /\ ErrorsIdle
    /\ GenerateIdle
    /\ DispatchIdle
    /\ PdaIdle
    /\ StateIdle
    /\ LifecycleIdle
    /\ DeadlineIdle

NextBorrow ==
    \/ LoadMutView
    \/ LoadView
    \/ WithStateView
    \/ DropView

SpecBorrow == InitBorrow /\ [][NextBorrow]_vars

InitDeadline ==
    /\ d_time_to_add \in TimesToAdd
    /\ d_clock \in Clocks
    /\ d_overflow_checks \in BOOLEAN
    /\ d_computed = <<0, 0, 0, 0>>
    /\ d_end_timestamp = NoTimestamp
    /\ d_last = NoRead
    /\ d_pc = "ready"
    /\ ValidateIdle
    /\ ParseIdle
    /\ ErrorsIdle
    /\ GenerateIdle
    /\ DispatchIdle
    /\ PdaIdle
    /\ StateIdle
    /\ BorrowIdle
    /\ LifecycleIdle

NextDeadline ==
    \/ InitializeVote
    \/ InitializePosition
    \/ UpdatePosition
    \/ RedeemWinnings

SpecDeadline == InitDeadline /\ [][NextDeadline]_vars

Init ==
    /\ program \in {Build(s) : s \in ProgramSources}
    /\ program_id \in {"Program", "Other"}
    /\ accounts \in SeqUpTo(AccountPool, MaxAccounts)
    /\ instruction_data \in Payloads
    /\ outcome = NoWork
    /\ pc = "ready"
    /\ ValidateIdle
    /\ ParseIdle
    /\ ErrorsIdle
    /\ GenerateIdle
    /\ PdaIdle
    /\ LifecycleIdle
    /\ StateIdle
    /\ BorrowIdle
    /\ DeadlineIdle

Next == Dispatch

Spec == Init /\ [][Next]_vars

----------------------------------------------------------------------------
(* Claims about the capability rules (SpecValidate).                       *)

\* C6, as stated: an UninitializedOwned slot whose account has a nonzero
\* balance fails with AccountAlreadyInitialized, whatever its owner and flags.
C6_AlwaysAlreadyInitialized ==
    (v_pc = "validated" /\ v_rule.type = "uninitialized" /\ v_account.lamports # 0)
        => v_result = Err("AccountAlreadyInitialized")

\* C6, amended: an UninitializedOwned slot whose account has a nonzero balance
\* always fails, with AccountAlreadyInitialized when the account's owner is the
\* default (system) owner and with InvalidAccountOwner for every other owner,
\* whatever the signer and writable flags.
C6_NonzeroBalanceRejected ==
    (v_pc = "validated" /\ v_rule.type = "uninitialized" /\ v_account.lamports # 0)
        => /\ ~v_result.ok
           /\ v_account.owner = "System" => v_result = Err("AccountAlreadyInitialized")
           /\ v_account.owner # "System" => v_result = Err("InvalidAccountOwner")

C6_Witness ==
    /\ v_pc = "validated"
    /\ v_rule = Rule("uninitialized", TRUE)
    /\ v_account.lamports # 0
    /\ v_account.owner = "Program"
    /\ v_account.is_writable
    /\ v_result = Err("InvalidAccountOwner")

\* C7, as stated: an UninitializedOwned slot is tagged writable by the metadata
\* and validation rejects every account that is not writable, with or without
\* an explicit "=> writable" marker.
C7_UninitializedRequiresWritable ==
    (v_pc = "validated" /\ v_rule.type = "uninitialized")
        => /\ shank_attrs(v_rule) = <<"writable">>
           /\ ~v_account.is_writable => ~v_result.ok

\* The table of section 4.6, written as a predicate of the account.
TablePasses(rule, account) ==
    /\ rule.writable => account.is_writable
    /\ CASE rule.type = "signer" -> account.is_signer
         [] rule.type = "program" -> account.owner = "Program" /\ account.lamports # 0
         [] rule.type = "token" -> account.owner = "Token" /\ account.lamports # 0
         [] rule.type = "not_token" -> account.owner # "Token"
         [] rule.type = "any" -> TRUE
         [] OTHER -> FALSE

\* C8: for Signer, Signer+Writable, ProgramOwned[+W], ExternalTokenOwned[+W],
\* NotTokenOwned[+W] and Unconstrained[+W], every (rule, account) pair gets a
\* result, and the slot passes exactly when the table's predicate holds.
C8_PassesIffTable ==
    (v_pc = "validated" /\ v_rule.type # "uninitialized")
        => /\ v_result.ok <=> TablePasses(v_rule, v_account)
           /\ v_result.ok => v_result = Ok

C8_Witness ==
    /\ v_pc = "validated"
    /\ v_rule = Rule("token", TRUE)
    /\ v_account.owner = "Token"
    /\ v_account.lamports = 0
    /\ v_account.is_writable
    /\ ~v_result.ok

\* The failures the table of section 4.6 lists for each capability.
TableFailures(type) ==
    CASE type = "signer" -> {"MissingRequiredSignature", "InvalidAccountData"}
      [] type = "program" -> {"InvalidAccountOwner", "UninitializedAccount", "InvalidAccountData"}
      [] type = "uninitialized" -> {"InvalidAccountOwner", "AccountAlreadyInitialized"}
      [] type = "token" -> {"InvalidAccountOwner", "UninitializedAccount"}
      [] type = "not_token" -> {"InvalidAccountOwner"}
      [] type = "any" -> {"InvalidAccountData"}

\* Signer without the marker lists MissingRequiredSignature alone.
ListedFailures(rule) ==
    IF rule = Rule("signer", FALSE) THEN {"MissingRequiredSignature"}
    ELSE TableFailures(rule.type)

\* C9, as stated: a rejected slot's error is one the table lists for its
\* capability.
C9_ErrorListedInTable ==
    (v_pc = "validated" /\ ~v_result.ok) => v_result.err \in ListedFailures(v_rule)

\* C9, amended: a rejected slot's error is one the table lists for its
\* capability, or InvalidAccountData when the slot is an UninitializedOwned,
\* ExternalTokenOwned or NotTokenOwned slot marked writable; the error carries
\* no custom code.
C9_ErrorListedOrNotWritable ==
    (v_pc = "validated" /\ ~v_result.ok)
        => /\ v_result.err \in
                ListedFailures(v_rule) \cup
                    (IF v_rule.writable /\ v_rule.type \in {"uninitialized", "token", "not_token"}
                     THEN {"InvalidAccountData"} ELSE {})
           /\ v_result = Err(v_result.err)

C9_Witness ==
    /\ v_pc = "validated"
    /\ v_rule = Rule("not_token", TRUE)
    /\ v_account.owner = "System"
    /\ ~v_account.is_writable
    /\ v_result = Err("InvalidAccountData")

----------------------------------------------------------------------------
(* Claims about the instruction parser (SpecParse).                        *)

\* C10, as stated: an instruction block whose accounts section has N lines
\* carrying a description marker parses to a descriptor with exactly N account
\* slots, in file order, with position indices 0..N-1, whatever the accounts
\* are named and whatever the descriptions say.
C10_OneSlotPerAccountLine ==
    (p_pc = "parsed" /\ p_meta # <<>> /\ p_layout \in {"lines", "open_comment"})
        => /\ Len(p_meta[1].accounts) = Len(p_decl.accounts)
           /\ \A i \in 1..Len(p_meta[1].accounts) :
                /\ p_meta[1].accounts[i].index = i - 1
                /\ p_meta[1].accounts[i].name = Chars(p_decl.accounts[i].name)

\* The accounts the generated try_from destructures from the supplied list
\* and validates, each with its position in the list.
BoundSlots(decl) ==
    [i \in 1..Len(decl.accounts) |-> [name |-> Chars(decl.accounts[i].name), index |-> i - 1]]

\* The accounts a descriptor lists, each with its position index.
ListedSlots(meta) ==
    [i \in 1..Len(meta.accounts) |->
        [name |-> meta.accounts[i].name, index |-> meta.accounts[i].index]]

\* The data fields a declaration declares, as text.
DeclaredFields(decl) ==
    [i \in 1..Len(decl.fields) |->
        [name |-> Chars(decl.fields[i].name), field_type |-> Chars(decl.fields[i].type)]]

\* The file holds a declaration the macro accepts.
Declares == p_layout # "no_macro"

\* C11, as stated: for every instruction declaration, either the descriptor
\* emitted carries every account slot and every data field the declaration
\* declares, or no descriptor is emitted; a descriptor lacking a declared slot
\* or field is never emitted.
C11_AllOrNothing ==
    (p_pc = "parsed" /\ Declares /\ p_meta # <<>>)
        => /\ Len(p_meta[1].accounts) = Len(p_decl.accounts)
           /\ \A i \in 1..Len(p_decl.accounts) :
                \E j \in 1..Len(p_meta[1].accounts) :
                    p_meta[1].accounts[j].name = Chars(p_decl.accounts[i].name)
           /\ p_meta[1].fields = DeclaredFields(p_decl)

\* The position after the start marker's first "(" from which the scan of
\* parse_instruction_file counts, 0 when the text holds no start marker.
MarkerStart(content) ==
    LET with_metadata == find_str(content, Chars("define_instruction_with_metadata!(")) IN
    IF with_metadata # 0 THEN with_metadata
    ELSE find_str(content, Chars("define_instruction!("))

\* The brackets opened after the marker never return to depth zero.
NeverRebalances(content) ==
    LET start == MarkerStart(content) IN
    /\ start # 0
    /\ \A i \in start..Len(content) :
          (content[i] \in {"(", ")"} /\ \E j \in start..i : content[j] = "(")
              => ParenCount(content, start, i) # 0

\* C19, as stated: the instruction extractor yields nothing, so that no
\* descriptor is parsed, when the start marker is absent from the text or the
\* brackets opened after the marker never return to depth zero before the end
\* of input.
C19_NothingWithoutMarkerOrBalance ==
    (p_pc = "parsed" /\ (MarkerStart(p_content) = 0 \/ NeverRebalances(p_content)))
        => p_meta = <<>>

\* C20, as stated: for every declaration the macro accepts, the metadata lists
\* the same accounts, in the same order and with the same position indices,
\* as the handler binds from the supplied account list, and as many.
C20_MetadataMatchesBinding ==
    (p_pc = "parsed" /\ Declares)
        => /\ p_meta # <<>>
           /\ ListedSlots(p_meta[1]) = BoundSlots(p_decl)

\* The attribute list the specification gives a capability text: signer when
\* the text holds "signer", then writable, once, when it holds a writable
\* marker or "uninitialized".
ListedAttrs(text) ==
    (IF contains(text, Chars("signer")) THEN <<"signer">> ELSE <<>>)
    \o (IF contains(text, Chars("=> writable")) \/ contains(text, Chars("uninitialized"))
        THEN <<"writable">> ELSE <<>>)

\* C21, as stated: for every capability text the attribute list the parser
\* emits for a slot is signer iff the text holds "signer", followed by
\* writable exactly once iff the text has a writable marker or holds
\* "uninitialized", and it is the list the macro's @shank_attrs helper gives
\* the same capability.
C21_AttrsAsListedAndAsMacro ==
    (p_pc = "parsed" /\ p_meta # <<>>)
        => \A j \in 1..Len(p_meta[1].accounts) :
             \A i \in 1..Len(p_decl.accounts) :
                p_meta[1].accounts[j].name = Chars(p_decl.accounts[i].name)
                    => /\ p_meta[1].accounts[j].attrs
                            = ListedAttrs(RuleText(p_decl.accounts[i].rule))
                       /\ p_meta[1].accounts[j].attrs = shank_attrs(p_decl.accounts[i].rule)

\* C22, as stated: every field line of the data section yields a pair whose
\* name is the text before the line's first separator and whose type is the
\* whole text after that first separator less the trailing comma, for every
\* type token, those holding the separator character included.
C22_FieldTypeVerbatim ==
    (p_pc = "parsed" /\ p_meta # <<>>)
        => \A i \in 1..Len(p_decl.fields) :
             \E k \in 1..Len(p_meta[1].fields) :
                p_meta[1].fields[k] = DeclaredFields(p_decl)[i]

\* The line is a section marker of the declaration.
IsSectionMarker(line) ==
    \/ starts_with(trim(line), Chars("accounts:"))
    \/ starts_with(trim(line), Chars("data:"))
    \/ starts_with(trim(line), Chars("process:"))

\* The lines of the text that precede its first section marker.
LinesBeforeSections(content) ==
    LET ls == lines(content)
        markers == {k \in 1..Len(ls) : IsSectionMarker(ls[k])}
    IN {ls[k] : k \in {k \in 1..Len(ls) : \A j \in markers : k < j}}

\* C23, as stated: the name of every descriptor the instruction parser
\* produces is taken from a line that precedes the first section marker
\* (accounts:, data: or process:); no line of the accounts or the data
\* section is taken as the instruction name.
C23_NameFromBeforeSections ==
    (p_pc = "parsed" /\ p_meta # <<>>)
        => \E line \in LinesBeforeSections(p_content) :
                p_meta[1].name = trim_end_matches(trim(line), ",")

\* C27, as stated: whenever the instruction parser produces a descriptor, its
\* discriminator is the integer the declaration's discriminant line
\* declares; a discriminant line that is not a decimal number in 0..255
\* never gives a descriptor carrying some other tag.
C27_TagIsTheDeclaredOne ==
    (p_pc = "parsed" /\ p_meta # <<>>)
        => p_meta[1].discriminator = p_decl.discriminant

----------------------------------------------------------------------------
(* Claims about the error-table parser (SpecErrors).                       *)

\* C13, as stated: in every error domain the error-table parser produces the
\* numeric codes of the variants are pairwise distinct.
C13_CodesPairwiseDistinct ==
    (e_pc = "parsed" /\ e_meta # <<>>)
        => \A i, j \in 1..Len(e_meta[1].variants) :
             i # j => e_meta[1].variants[i].code # e_meta[1].variants[j].code

----------------------------------------------------------------------------
(* Claims about the state parser (SpecState).                              *)

\* C24, as stated: every `struct Name { field: type, ... }` block of a record
\* declaration yields exactly one record of the flat list, with its name and
\* all its fields in declared order, the records in source order: none is
\* dropped, emptied, merged into another or listed twice, whatever else the
\* file holds.
C24_OneRecordPerBlock ==
    (s_pc = "parsed" /\ s_layout # "no_macro") => s_meta = s_decl

----------------------------------------------------------------------------
(* Claims about the code generator (SpecGenerate).                         *)

ItemsOf(kinds) == SelectSeq(g_code, LAMBDA item : item.kind \in kinds)

\* C14, as stated: for every combination of descriptor sets, an empty
\* instruction set included, the generated source holds exactly one
\* fixed-layout type per state record, in order and with the record's fields
\* in declared order, and one enumerated type with its conversion per error
\* domain.
C14_OneTypePerRecordAndDomain ==
    g_pc = "generated"
        => /\ ItemsOf({"state_struct"})
                = [i \in 1..Len(g_state_structs) |->
                      Item("state_struct", g_state_structs[i].name, g_state_structs[i].fields)]
           /\ ItemsOf({"error_enum", "from_impl"})
                = Concat([i \in 1..Len(g_errors) |->
                      <<Item("error_enum", g_errors[i].name, g_errors[i].variants),
                        Item("from_impl", g_errors[i].name, <<>>)>>])

----------------------------------------------------------------------------
(* Claims about PDA assertions (SpecPda).                                  *)

\* The least element of a set of indices.
Lowest(S) == CHOOSE i \in S : \A j \in S : i <= j

\* The assertions of the batch whose account is not at the derived address.
Mismatches ==
    {i \in 1..Len(a_batch) :
        a_batch[i].account.key
            # derive_address(a_batch[i].seeds, a_batch[i].bump, "Program")}

\* C15: an assertion returns the error its caller chose exactly when the
\* account's address differs from the address derived from the seeds, the
\* bump and the program identity, and passes otherwise; a batch applies its
\* assertions in the order written and returns at the first mismatch, with
\* that assertion's error and without evaluating the later ones.
C15_PdaAssertionsInOrder ==
    a_pc = "checked"
        => /\ \A i \in 1..Len(a_batch) :
                 LET e == a_batch[i]
                     r == assert_pda(e.account, e.seeds, e.bump, e.error)
                 IN /\ (r = e.error) <=> (i \in Mismatches)
                    /\ (r = Ok) <=> (i \notin Mismatches)
           /\ IF Mismatches = {}
              THEN a_result = [result |-> Ok, checked |-> Len(a_batch)]
              ELSE a_result = [result |-> a_batch[Lowest(Mismatches)].error,
                               checked |-> Lowest(Mismatches)]

\* A batch of two whose first assertion passes and whose second fails, and
\* another address that passes under a different bump.
C15_Witness ==
    /\ a_pc = "checked"
    /\ Len(a_batch) = 2
    /\ Mismatches = {2}
    /\ a_batch[1].bump = 255
    /\ a_batch[2].bump = 254
    /\ a_batch[1].seeds = a_batch[2].seeds
    /\ a_batch[1].account = a_batch[2].account
    /\ a_result = [result |-> Custom(6003), checked |-> 2]

----------------------------------------------------------------------------
(* Claims about views on account storage (SpecBorrow).                     *)

\* C25, as stated: within one operation the views on an account's storage
\* are one mutable view or any number of shared ones: while a mutable view
\* made by load_mut! or with_state! is held, no other view of the same
\* account is held.
C25_ExclusiveXorShared ==
    \A i, j \in 1..Len(b_views) :
        (i # j /\ b_views[i].key = b_views[j].key)
            => ~b_views[i].mutable /\ ~b_views[j].mutable

----------------------------------------------------------------------------
(* Claims about accounts at run time (SpecLifecycle).                      *)

\* The record type the last operation named.
LastType == CHOOSE t \in RecordTypes : t.name = l_last.type

\* The account the last operation was about, before and after it.
Before == l_before[l_last.key]

After == l_ledger[l_last.key]

Loaded == l_last.op \in {"load", "load_mut", "load_unchecked"}

\* C16: load!, load_mut! and perf::load_unchecked return a view exactly when
\* the account's storage is as long as the record type; for every other
\* length, shorter, longer or zero, they fail with InvalidAccountData and
\* nothing has been written to any account.
C16_ViewOnlyOnExactLength ==
    Loaded
        => /\ l_last.result.ok <=> (Before.data_len = DataLEN(LastType.fields))
           /\ Before.data_len # DataLEN(LastType.fields)
                => /\ l_last.result = Err("InvalidAccountData")
                   /\ l_ledger = l_before

\* A load_mut! of a Position from storage one byte longer than the record.
C16_Witness ==
    /\ l_last.op = "load_mut"
    /\ l_last.type = "Position"
    /\ Before.data_len = DataLEN(PositionRecord.fields) + 1
    /\ l_last.result = Err("InvalidAccountData")
    /\ l_ledger = l_before

Closed == l_last.op = "close" /\ l_last.result.ok

\* C28, as stated: whatever close(account, beneficiary) returns, the two
\* balances add up afterwards to what they added up to before, also where
\* the two balances together exceed the largest balance the width holds.
C28_CloseConservesBalance ==
    l_last.op = "close"
        => l_ledger[l_last.key].lamports + l_ledger[l_last.other].lamports
             = l_before[l_last.key].lamports + l_before[l_last.other].lamports

\* C17, as stated: a successful close of an account into a distinct
\* beneficiary, whatever the length of the account's storage, leaves the
\* beneficiary with its old balance plus the account's whole old balance, the
\* account with balance 0, its storage at most one byte long with the
\* tombstone 0xff in the byte at its start, and the account no longer owned
\* by the program.
C17_CloseMovesBalanceAndMarks ==
    Closed
        => /\ l_last.key # l_last.other
           /\ l_ledger[l_last.other].lamports
                = l_before[l_last.other].lamports + Before.lamports
           /\ After.lamports = 0
           /\ After.data_len <= 1
           /\ After.buffer # <<>>
           /\ After.buffer[1] = 255
           /\ After.owner # "Program"

Probed == l_last.op \in {"validate", "load", "load_mut", "load_unchecked"}

\* C18, as stated: once close has succeeded on an account, every later
\* ProgramOwned validation of it and every later load of a state record
\* from it fails, in every sequence of operations.
C18_ClosedNeverLiveAgain ==
    (Probed /\ l_last.key \in l_ever_closed) => ~l_last.result.ok

\* C18, amended: from a successful close of an account until a create of
\* that account succeeds, every ProgramOwned validation of it fails with
\* InvalidAccountOwner and every load of a state record from it fails with
\* InvalidAccountData.
C18_ClosedNotLiveUntilCreated ==
    (Probed /\ l_last.key \in l_closed)
        => l_last.result = IF l_last.op = "validate" THEN Err("InvalidAccountOwner")
                           ELSE Err("InvalidAccountData")

\* A Position that was live, was closed, and is then validated as
\* ProgramOwned and refused.
C18_Witness ==
    /\ l_last.op = "validate"
    /\ l_last.key \in l_closed
    /\ l_steps >= 2
    /\ l_last.result = Err("InvalidAccountOwner")
    /\ Before.buffer # <<>>
    /\ Before.buffer[1] = 255

\* C29: from a successful create of an account until a close of that
\* account succeeds, every validation of it as `uninitialized` fails, in
\* every sequence of operations; and while it lasts the account is owned
\* by the program and a further create of it is refused.
C29_LiveAccountNotCreatedAgain ==
    /\ (l_last.op = "validate_uninitialized" /\ l_last.key \in l_created)
            => ~l_last.result.ok
    /\ \A key \in l_created : l_ledger[key].owner = "Program"
    /\ (l_last.op = "create" /\ l_last.key \in l_created /\ l_before[l_last.key].owner = "Program")
            => ~l_last.result.ok /\ l_ledger = l_before

\* An account created by an earlier operation, not closed since, is
\* validated as `uninitialized` and refused for its owner.
C29_Witness ==
    /\ l_last.op = "validate_uninitialized"
    /\ l_last.key \in l_created
    /\ l_steps >= 2
    /\ l_last.result = Err("InvalidAccountOwner")
    /\ After.owner = "Program"
    /\ After.lamports >= minimum_balance(After.data_len)

----------------------------------------------------------------------------
(* Claims about the deadline of a vote (SpecDeadline).                     *)

\* C30, as stated: the integer InitializePosition, UpdatePosition and
\* RedeemWinnings read from the vote record's end_timestamp and compare
\* with the clock is the integer InitializeVote computed and stored, for
\* every value of time_to_add and of the clock.
C30_DeadlineRoundTrips ==
    d_pc = "read" => d_last.vote_deadline = d_computed

----------------------------------------------------------------------------
(* Claims about dispatch, account binding and payload decoding (Spec).     *)

\* The declaration whose handler the operation was handed to.
Selected == program.decls[outcome.selected]

\* The slots of the selected handler whose rule the bound account fails.
FailingSlots ==
    {i \in 1..Len(Selected.accounts) :
        ~validate_account(accounts[i], Selected.accounts[i].rule).ok}

Did(op) == \E k \in 1..Len(outcome.trace) : outcome.trace[k].op = op

\* The validate_account! calls made, in the order they were made.
Validated == SelectSeq(outcome.trace, LAMBDA e : e.op = "validate")

Bound == outcome.selected # 0 /\ Len(accounts) >= Len(Selected.accounts)

DeclaredDiscriminants == {program.decls[k].discriminant : k \in 1..Len(program.decls)}

\* C1: when the account list is long enough for the selected instruction, its
\* slots are validated in declared order; the error returned is that of the
\* lowest-index failing slot, no later slot is evaluated, and the payload is
\* not decoded before every slot has passed (so a capability error wins over
\* a payload error).
C1_SlotsInOrderBeforePayload ==
    (pc = "done" /\ Bound)
        => /\ \A k \in 1..Len(Validated) : Validated[k].slot = k - 1
           /\ \A j, k \in 1..Len(outcome.trace) :
                (outcome.trace[j].op = "validate" /\ outcome.trace[k].op = "decode") => j < k
           /\ FailingSlots = {} => Len(Validated) = Len(Selected.accounts)
           /\ FailingSlots # {} =>
                /\ Len(Validated) = Lowest(FailingSlots)
                /\ outcome.result =
                     validate_account(accounts[Lowest(FailingSlots)],
                                      Selected.accounts[Lowest(FailingSlots)].rule)
                /\ ~Did("decode")
                /\ outcome.decoded = <<>>
                /\ ~outcome.ran

\* Scenario B with a payload that is too short as well, and a later slot that
\* would fail too.
C1_Witness ==
    /\ pc = "done"
    /\ Bound
    /\ Selected.name = "InitializeCounter"
    /\ Cardinality(FailingSlots) = 2
    /\ Lowest(FailingSlots) = 1
    /\ Len(instruction_data) - 1 # DataLEN(Selected.fields)
    /\ outcome.result = Err("InvalidAccountData")

\* C2, as stated: whenever the identity differs from the expected one the
\* routine returns IncorrectProgramId and does no lookup, validation, decoding
\* or handler work, for every descriptor set.
C2_AlwaysIncorrectProgramId ==
    (pc = "done" /\ program_id # "Program")
        => /\ outcome.result = Err("IncorrectProgramId")
           /\ outcome.trace = <<>>

\* C2, amended: whenever the identity differs from the expected one the routine
\* does no lookup, validation, decoding or handler work; it returns
\* IncorrectProgramId when the descriptor set holds at least one instruction,
\* and InvalidInstructionData (the fallback, which tests nothing) when it holds
\* none.
C2_IdentityMismatchDoesNothing ==
    (pc = "done" /\ program_id # "Program")
        => /\ outcome.trace = <<>>
           /\ outcome.selected = 0
           /\ outcome.decoded = <<>>
           /\ ~outcome.ran
           /\ program.instructions # <<>> => outcome.result = Err("IncorrectProgramId")
           /\ program.instructions = <<>> => outcome.result = Err("InvalidInstructionData")

\* Scenario A's operation, sent under another identity.
C2_Witness ==
    /\ pc = "done"
    /\ program_id # "Program"
    /\ program.decls = <<CreateDecl>>
    /\ instruction_data = <<0, 1, 0, 0, 0, 0, 0, 0, 0>>
    /\ Len(accounts) = 2
    /\ \A i \in 1..2 : validate_account(accounts[i], CreateDecl.accounts[i].rule).ok
    /\ outcome.result = Err("IncorrectProgramId")

\* The payload begins with no declared instruction's discriminator.
UndeclaredTag ==
    instruction_data = <<>> \/ instruction_data[1] \notin DeclaredDiscriminants

\* The reserved variant of the declared domain, as a result.
IsInvalidDiscriminatorOf(error, result) ==
    \E k \in 1..Len(error.variants) :
        /\ error.variants[k].name = "InvalidDiscriminator"
        /\ result = Custom(error.variants[k].code)

\* C3, as stated: under the right identity, a payload that begins with no
\* declared discriminator gets the declared domain's InvalidDiscriminator with
\* its code, and the generic invalid-instruction error when no domain is
\* declared, whatever the accounts.
C3_UnknownTagGetsDomainError ==
    (pc = "done" /\ program_id = "Program" /\ UndeclaredTag)
        => /\ program.errors # <<>> => IsInvalidDiscriminatorOf(program.errors[1], outcome.result)
           /\ program.errors = <<>> => outcome.result = Err("InvalidInstructionData")

\* C3, amended: the same, for a program that declares at least one
\* instruction; a program with a domain and no instruction gets the fallback,
\* which returns the generic invalid-instruction error for every payload.  In
\* neither case is an account bound or validated or the payload decoded.
C3_UnknownTagUnlessFallback ==
    (pc = "done" /\ program_id = "Program" /\ UndeclaredTag)
        => /\ (program.errors # <<>> /\ program.decls # <<>>)
                => IsInvalidDiscriminatorOf(program.errors[1], outcome.result)
           /\ (program.errors = <<>> \/ program.decls = <<>>)
                => outcome.result = Err("InvalidInstructionData")
           /\ outcome.selected = 0
           /\ ~Did("bind") /\ ~Did("validate") /\ ~Did("decode") /\ ~Did("process")

C3_Witness ==
    /\ pc = "done"
    /\ program_id = "Program"
    /\ program.errors # <<>>
    /\ program.decls # <<>>
    /\ instruction_data # <<>>
    /\ UndeclaredTag
    /\ accounts = <<>>
    /\ outcome.result = Custom(6001)

\* C4: a process body runs only if the account list bound, every slot passed
\* and the payload after the discriminator has exactly the length of the
\* declared fields; when the slots pass and the length is any other, the
\* result is InvalidInstructionData, no field is read and the body does not
\* run.
C4_BodyNeedsSlotsAndExactLength ==
    pc = "done"
        => /\ outcome.ran =>
                /\ Bound
                /\ FailingSlots = {}
                /\ Len(instruction_data) - 1 = DataLEN(Selected.fields)
           /\ (Bound /\ FailingSlots = {}
                    /\ Len(instruction_data) - 1 # DataLEN(Selected.fields))
                => /\ outcome.result = Err("InvalidInstructionData")
                   /\ outcome.decoded = <<>>
                   /\ ~outcome.ran

\* Scenario C's outcome, for a payload that is one byte too long.
C4_Witness ==
    /\ pc = "done"
    /\ Bound
    /\ Selected = CreateDecl
    /\ FailingSlots = {}
    /\ Len(instruction_data) - 1 = DataLEN(Selected.fields) + 1
    /\ outcome.result = Err("InvalidInstructionData")
    /\ ~outcome.ran

\* C26: when fewer accounts are supplied than the selected instruction
\* declares slots, the operation fails with NotEnoughAccountKeys, no slot's
\* rule is evaluated and the payload is not decoded; accounts supplied beyond
\* the declared count are never validated and change nothing: the outcome is
\* that of the list cut to the declared count.
C26_TooFewFailsFirstExtraIgnored ==
    (pc = "done" /\ outcome.selected # 0)
        => LET n == Len(Selected.accounts) IN
           /\ Len(accounts) < n
                => /\ outcome.result = Err("NotEnoughAccountKeys")
                   /\ ~Did("validate")
                   /\ ~Did("decode")
                   /\ outcome.decoded = <<>>
                   /\ ~outcome.ran
           /\ Len(accounts) >= n
                => /\ outcome.result # Err("NotEnoughAccountKeys")
                   /\ \A k \in 1..Len(Validated) : Validated[k].slot < n
                   /\ \A aligned \in BOOLEAN :
                        InstructionTryFrom(Selected, accounts, outcome.bound_data, aligned)
                            = InstructionTryFrom(Selected, SubSeq(accounts, 1, n),
                                                 outcome.bound_data, aligned)

\* Two accounts for InitializeCounter's three slots, the first of which would
\* fail its rule, with a payload of the wrong length.
C26_Witness ==
    /\ pc = "done"
    /\ outcome.selected # 0
    /\ Selected.name = "InitializeCounter"
    /\ Len(accounts) = 2
    /\ ~validate_account(accounts[1], Selected.accounts[1].rule).ok
    /\ Len(outcome.bound_data) # DataLEN(Selected.fields)
    /\ outcome.result = Err("NotEnoughAccountKeys")

\* C12, as stated: after aggregation the instruction descriptors are strictly
\* ascending in discriminator (ordered by tag, no tag shared by two), so that
\* every emitted instruction is the one its own tag selects.
C12_StrictlyAscendingTags ==
    /\ \A i, j \in 1..Len(program.instructions) :
          i < j => program.instructions[i].discriminator < program.instructions[j].discriminator
    /\ \A i \in 1..Len(program.instructions) :
          MatchArm(program.instructions, <<program.instructions[i].discriminator>>) = i

\* The bytes of the declared fields, laid end to end in declared order.
RECURSIVE FieldBytes(_)
FieldBytes(decoded) ==
    IF decoded = <<>> THEN <<>> ELSE Head(decoded).bytes \o FieldBytes(Tail(decoded))

\* C5, as stated: under the right identity, a payload whose first byte is the
\* discriminator declared for instruction I is handed to I's path and to no
\* other, with the account list unchanged and the payload less its first
\* byte; when the body runs, the decoded fields are those bytes in declared
\* order (scenario A decodes amount = 1).
C5_TagSelectsItsInstruction ==
    (pc = "done" /\ program_id = "Program" /\ instruction_data # <<>>)
        => \A k \in 1..Len(program.decls) :
             program.decls[k].discriminant = instruction_data[1]
                => /\ outcome.selected = k
                   /\ outcome.bound_accounts = accounts
                   /\ outcome.bound_data = Tail(instruction_data)
                   /\ outcome.ran =>
                        /\ FieldBytes(outcome.decoded) = Tail(instruction_data)
                        /\ \A i \in 1..Len(outcome.decoded) :
                             outcome.decoded[i].name = program.decls[k].fields[i].name
                   /\ (outcome.ran /\ program.decls[k] = CreateDecl
                            /\ instruction_data = <<0, 1, 0, 0, 0, 0, 0, 0, 0>>)
                        => from_le_bytes(outcome.decoded[1].bytes) = 1

====
